---- MODULE Spec2Model ----
(***************************************************************************)
(* A model of the whatsmyway recommendation engine                         *)
(* (apps/api/app/services/recommendation_service.py) and of the location   *)
(* service it sits beside (apps/api/app/services/location_service.py).     *)
(*                                                                         *)
(* Time.  A datetime is a record [wall, tzinfo]: wall is the wall-clock    *)
(* reading in minutes since midnight of day 0 (the engine only ever sees   *)
(* whole minutes: second and microsecond are zero), tzinfo is <<>> for a   *)
(* naive value and <<offset>> (minutes east of UTC) for an aware one.      *)
(*                                                                         *)
(* Travel.  Minutes are kept in tenths (round(x, 1) of the code), raw      *)
(* haversine minutes in hundredths.  Places lie on the great circle of the *)
(* meridians lng = 0 and lng = 180, where the haversine distance is the    *)
(* radius times the arc between them; lat is counted in the arc that takes *)
(* 0.01 minute to drive at AVERAGE_CITY_SPEED_KMH with TRAFFIC_MULTIPLIER. *)
(***************************************************************************)
EXTENDS Integers, Sequences, FiniteSets, TLC

VARIABLES
    date_start,        \* recommend_slots argument
    date_end,          \* recommend_slots argument
    events,            \* recommend_slots argument, in the caller's order
    new_event,         \* recommend_slots argument: the new event's location
    duration_minutes,  \* recommend_slots argument
    buffer_minutes,    \* recommend_slots argument
    pc,                \* where recommend_slots stands
    windows,           \* recommend_slots local: the clipped free windows
    wi,                \* index of the window the for loop is at
    suggestions,       \* recommend_slots local: candidates scored so far
    result,            \* the returned list (<<>> until the call returns)
    raised,            \* the exception that left recommend_slots ("none" if none)
    lookups,           \* the travel lookups recommend_slots has made, in order
    fallback_routing_provider,  \* LocationService field: None or <<provider>>
    geocode_cache,     \* the lru_cache of _cached_geocode, least recently used first
    calls_made,        \* how many LocationService calls have been made
    last_call,         \* the latest LocationService call and what came of it
    requests,          \* the geocode_address calls of concurrent requests, by thread
    environ,           \* os.environ: the variables get_location_service reads
    service_memo,      \* the lru_cache of get_location_service: None or <<service>>
    stored_events      \* the sales_events table, in insertion order

args == <<date_start, date_end, events, new_event, duration_minutes, buffer_minutes>>
engine == <<pc, windows, wi, suggestions, result, raised, lookups>>
service == <<fallback_routing_provider, geocode_cache, calls_made, last_call>>

process == <<requests, environ, service_memo, stored_events>>

vars == <<args, engine, service, process>>

----------------------------------------------------------------------------
(* Program constants *)

DAY_START_HOUR == 8
DAY_END_HOUR == 19
MAX_SUGGESTIONS == 10

(* Bounds of the model *)

\* the free calendars: instants GridOrigin + k * GridStep, k in 0..MaxTick
MaxTick == 5
\* the free calendars: at most this many events
MaxEvents == 2
\* the free calendars: an event lasts 1..MaxEventLen grid steps
MaxEventLen == 2
\* the busy day: this many back-to-back slots from 08:00
NSlots == 12
\* the busy day: at most this many slots hold no event
MaxAbsent == 1
\* the busy day: event k sits at place (k * stride) % 3, stride in 0..MaxStride
MaxStride == 2

DayMinutes == 24 * 60

----------------------------------------------------------------------------
(* datetime *)

None == <<>>

Naive(w) == [wall |-> w, tzinfo |-> None]

\* the instant a datetime denotes, in minutes UTC (naive values are read as UTC)
Instant(value) ==
    IF value.tzinfo = None THEN value.wall ELSE value.wall - value.tzinfo[1]

\* the offset dropped, the wall-clock reading kept
OffsetDropped(value) == [value EXCEPT !.tzinfo = None]

to_naive_utc(value) ==
    IF value.tzinfo = None
    THEN value
    ELSE [wall |-> value.wall - value.tzinfo[1], tzinfo |-> None]

\* datetime + timedelta(minutes = m)
Plus(value, m) == [value EXCEPT !.wall = @ + m]

\* value.replace(hour = h, minute = 0, second = 0, microsecond = 0)
ReplaceHour(value, h) ==
    [value EXCEPT !.wall = (@ \div DayMinutes) * DayMinutes + h * 60]

\* a < b on two naive datetimes
Before(a, b) == a.wall < b.wall

DtMax(a, b) == IF Before(a, b) THEN b ELSE a
DtMin(a, b) == IF Before(b, a) THEN b ELSE a

\* naive datetime.isoformat(): the date, the hour and the minute as zero-padded
\* decimal fields (the day number stands for YYYY-MM-DD), one digit per place
isoformat(value) ==
    LET d == value.wall \div DayMinutes
        h == (value.wall % DayMinutes) \div 60
        m == value.wall % 60
    IN  <<d \div 10, d % 10, h \div 10, h % 10, m \div 10, m % 10>>

\* datetime.fromisoformat() on such a string
fromisoformat(s) ==
    Naive((s[1] * 10 + s[2]) * DayMinutes + (s[3] * 10 + s[4]) * 60
          + s[5] * 10 + s[6])

\* str < str: the first place where two strings differ decides, a proper
\* prefix is smaller
RECURSIVE StrLess(_, _)
StrLess(a, b) ==
    IF b = <<>> THEN FALSE
    ELSE IF a = <<>> THEN TRUE
    ELSE IF Head(a) # Head(b) THEN Head(a) < Head(b)
    ELSE StrLess(Tail(a), Tail(b))

----------------------------------------------------------------------------
(* travel_service.estimate_travel_minutes *)

Abs(x) == IF x < 0 THEN -x ELSE x
Max(a, b) == IF a < b THEN b ELSE a
Min(a, b) == IF a < b THEN a ELSE b

\* half the way round the sphere, in hundredths of a minute of travel:
\* pi * 6371 km at 35 km/h with the traffic multiplier 1.2
HalfTurn == 4117408

\* where a place is along the great circle of the meridians 0 and 180
Along(place) == IF place.lng = 0 THEN place.lat ELSE HalfTurn - place.lat

\* raw minutes in hundredths between two places of that great circle; between
\* two places of one meridian, the difference of their latitudes
HaversineMinutes(origin, destination) ==
    LET apart == Abs(Along(destination) - Along(origin))
    IN  Min(apart, 2 * HalfTurn - apart)

\* round(x, 1): hundredths to tenths, a tie going to the even tenth
Round1(h) ==
    LET q == h \div 10
        r == h % 10
    IN  IF r < 5 THEN q
        ELSE IF r > 5 THEN q + 1
        ELSE IF q % 2 = 0 THEN q ELSE q + 1

\* round(max(minutes, 2.0), 1), in tenths of a minute
estimate_travel_minutes(origin, destination) ==
    Round1(Max(HaversineMinutes(origin, destination), 200))

----------------------------------------------------------------------------
(* location_service: what a call comes to *)

\* a value returned, or an exception raised
Ok(v) == [ok |-> TRUE, value |-> <<v>>, error |-> "none"]
Raise(e) == [ok |-> FALSE, value |-> <<>>, error |-> e]

NoCall == [op |-> "none", request |-> <<>>, provider_calls |-> <<>>,
           outcome |-> [ok |-> TRUE, value |-> <<>>, error |-> "none"]]

(* LocationService.normalize_address; a str is a sequence of characters *)

Whitespace == {" ", "\t"}

RECURSIVE LStrip(_)
LStrip(s) ==
    IF s # <<>> /\ Head(s) \in Whitespace THEN LStrip(Tail(s)) ELSE s

RECURSIVE RStrip(_)
RStrip(s) ==
    IF s # <<>> /\ s[Len(s)] \in Whitespace
    THEN RStrip(SubSeq(s, 1, Len(s) - 1)) ELSE s

\* str.strip()
Strip(s) == RStrip(LStrip(s))

\* str.split(): the maximal runs of non-whitespace; word is the run being read
RECURSIVE SplitFrom(_, _)
SplitFrom(s, word) ==
    IF s = <<>> THEN (IF word = <<>> THEN <<>> ELSE <<word>>)
    ELSE IF Head(s) \in Whitespace
         THEN (IF word = <<>> THEN <<>> ELSE <<word>>) \o SplitFrom(Tail(s), <<>>)
         ELSE SplitFrom(Tail(s), Append(word, Head(s)))

Split(s) == SplitFrom(s, <<>>)

\* the words run together, nothing between them
RECURSIVE Concatenated(_)
Concatenated(words) ==
    IF words = <<>> THEN <<>> ELSE Head(words) \o Concatenated(Tail(words))

\* " ".join(words)
RECURSIVE Join(_)
Join(words) ==
    IF words = <<>> THEN <<>>
    ELSE IF Len(words) = 1 THEN words[1]
    ELSE words[1] \o <<" ">> \o Join(Tail(words))

\* the address as it was typed, its whitespace kept
AddressAsTyped(address) == address

\* the normalized string; the empty one stands for the ValueError raised
normalize_address(address) == Join(Split(Strip(address)))

(* LocationService._cached_geocode: functools.lru_cache(maxsize = 2048) *)

CacheMaxSize == 2048

CacheKeys(cache) == {cache[i].key : i \in 1..Len(cache)}

CacheValue(cache, key) ==
    cache[CHOOSE i \in 1..Len(cache) : cache[i].key = key].value

\* the other entries, in their order
Without(cache, key) == SelectSeq(cache, LAMBDA entry : entry.key # key)

\* a hit that leaves the order of the entries as it was
LeftInPlace(cache, key) == cache

\* a hit makes the entry the most recently used
Touched(cache, key) ==
    Append(Without(cache, key), [key |-> key, value |-> CacheValue(cache, key)])

\* a new entry; the least recently used one goes when the cache is full
Inserted(cache, key, value) ==
    Append(IF Len(cache) >= CacheMaxSize THEN Tail(cache) ELSE cache,
           [key |-> key, value |-> value])

\* the cache after a miss, storing whatever the provider's call came to
CacheAfterMissStoringFailures(cache, key, answer) ==
    Inserted(cache, key, answer.value)

\* the cache after a miss: a value returned is stored, an exception is not
CacheAfterMiss(cache, key, answer) ==
    IF answer.ok THEN Inserted(cache, key, answer.value) ELSE cache

(* LocationService.estimate_travel_minutes *)

ProviderCall(provider, origin, destination, answer) ==
    [provider |-> provider, args |-> <<origin, destination>>, answer |-> answer]

\* the primary provider only: its failure is never handed to the fallback
EstimateWithoutFallback(origin, destination, primary, fallback) ==
    [outcome |-> primary,
     provider_calls |-> <<ProviderCall("primary", origin, destination, primary)>>]

\* a fallback that is handed every failure of the primary, whatever its kind
EstimateAbsorbingAnyError(origin, destination, primary, fallback) ==
    IF primary.ok \/ fallback_routing_provider = None
    THEN [outcome |-> primary,
          provider_calls |-> <<ProviderCall("primary", origin, destination, primary)>>]
    ELSE [outcome |-> fallback,
          provider_calls |-> <<ProviderCall("primary", origin, destination, primary),
                               ProviderCall("fallback", origin, destination, fallback)>>]

\* primary and fallback are what the two providers answer when they are asked
LocationServiceEstimate(origin, destination, primary, fallback) ==
    IF primary.ok \/ primary.error # "RoutingError"
       \/ fallback_routing_provider = None
    THEN [outcome |-> primary,
          provider_calls |-> <<ProviderCall("primary", origin, destination, primary)>>]
    ELSE [outcome |-> fallback,
          provider_calls |-> <<ProviderCall("primary", origin, destination, primary),
                               ProviderCall("fallback", origin, destination, fallback)>>]

----------------------------------------------------------------------------
(* recommendation_service._build_candidate_windows *)

\* sorted(events, key = lambda event: event.start_at): a stable sort, an event
\* goes before the first one that starts strictly later
RECURSIVE InsertByStart(_, _)
InsertByStart(sorted, event) ==
    IF sorted = <<>> THEN <<event>>
    ELSE IF Instant(event.start_at) < Instant(Head(sorted).start_at)
         THEN <<event>> \o sorted
         ELSE <<Head(sorted)>> \o InsertByStart(Tail(sorted), event)

RECURSIVE SortedEvents(_)
SortedEvents(evs) ==
    IF evs = <<>> THEN <<>>
    ELSE InsertByStart(SortedEvents(SubSeq(evs, 1, Len(evs) - 1)), evs[Len(evs)])

\* a cursor that follows every event's end, an earlier one too
AdvanceCursorAlways(cursor, event_end) == event_end

\* if cursor < event_end: cursor = event_end
AdvanceCursor(cursor, event_end) ==
    IF Before(cursor, event_end) THEN event_end ELSE cursor

\* the for loop over sorted_events: the gaps before each event
RECURSIVE WalkEvents(_, _, _)
WalkEvents(sorted_events, cursor, acc) ==
    IF sorted_events = <<>> THEN [cursor |-> cursor, windows |-> acc]
    ELSE LET event == Head(sorted_events)
             event_start == to_naive_utc(event.start_at)
             event_end == to_naive_utc(event.end_at)
             gaps == IF Before(cursor, event_start)
                     THEN Append(acc, [start |-> cursor, end |-> event_start])
                     ELSE acc
         IN  WalkEvents(Tail(sorted_events), AdvanceCursor(cursor, event_end), gaps)

\* the gaps, the one after the last event left out
GapWindowsNoTrailing(ds, de, evs) ==
    WalkEvents(SortedEvents(evs), to_naive_utc(ds), <<>>).windows

\* the gaps, the one after the last event included
GapWindows(ds, de, evs) ==
    LET walked == WalkEvents(SortedEvents(evs), to_naive_utc(ds), <<>>)
        normalized_end == to_naive_utc(de)
    IN  IF Before(walked.cursor, normalized_end)
        THEN Append(walked.windows,
                    [start |-> walked.cursor, end |-> normalized_end])
        ELSE walked.windows

\* each gap cut to 08:00 of the day it starts on and 19:00 of the day it ends on
RECURSIVE TrimmedToEndDay(_)
TrimmedToEndDay(ws) ==
    IF ws = <<>> THEN <<>>
    ELSE LET start == Head(ws).start
             end == Head(ws).end
             bounded_start == DtMax(start, ReplaceHour(start, DAY_START_HOUR))
             bounded_end == DtMin(end, ReplaceHour(end, DAY_END_HOUR))
         IN  (IF Before(bounded_start, bounded_end)
              THEN <<[start |-> bounded_start, end |-> bounded_end]>>
              ELSE <<>>) \o TrimmedToEndDay(Tail(ws))

\* the second for loop: each gap cut to 08:00-19:00 of the day it starts on
RECURSIVE Trimmed(_)
Trimmed(ws) ==
    IF ws = <<>> THEN <<>>
    ELSE LET start == Head(ws).start
             end == Head(ws).end
             day_start == ReplaceHour(start, DAY_START_HOUR)
             day_end == ReplaceHour(start, DAY_END_HOUR)
             bounded_start == DtMax(start, day_start)
             bounded_end == DtMin(end, day_end)
         IN  (IF Before(bounded_start, bounded_end)
              THEN <<[start |-> bounded_start, end |-> bounded_end]>>
              ELSE <<>>) \o Trimmed(Tail(ws))

build_candidate_windows(ds, de, evs) == Trimmed(GapWindows(ds, de, evs))

----------------------------------------------------------------------------
(* recommendation_service._neighbors_for_slot *)

RECURSIVE NeighborsScan(_, _, _, _, _)
NeighborsScan(evs, slot_start, slot_end, previous_event, next_event) ==
    IF evs = <<>> THEN [previous |-> previous_event, next |-> next_event]
    ELSE LET event == Head(evs)
             event_start == to_naive_utc(event.start_at)
             event_end == to_naive_utc(event.end_at)
             prev2 == IF ~Before(slot_start, event_end)
                      THEN <<event>> ELSE previous_event
             next2 == IF next_event = None /\ ~Before(event_start, slot_end)
                      THEN <<event>> ELSE next_event
         IN  NeighborsScan(Tail(evs), slot_start, slot_end, prev2, next2)

\* an absent neighbour is None (<<>>), a present one <<event>>
neighbors_for_slot(evs, slot_start, slot_end) ==
    NeighborsScan(evs, slot_start, slot_end, None, None)

----------------------------------------------------------------------------
(* recommendation_service.recommend_slots *)

NoWindow == [start |-> Naive(0), end |-> Naive(0)]
window == IF wi \in 1..Len(windows) THEN windows[wi] ELSE NoWindow
candidate_start == Plus(window.start, buffer_minutes)
candidate_end == Plus(candidate_start, duration_minutes)

\* a test that leaves the buffer after the candidate out
RejectedIgnoringExitBuffer(cand_end, buffer, window_end) ==
    Before(window_end, cand_end)

\* if candidate_end + buffer > window_end: continue
Rejected(cand_end, buffer, window_end) ==
    Before(window_end, Plus(cand_end, buffer))

LocationOf(event) == [lat |-> event.lat, lng |-> event.lng]

\* the difference without the floor at zero
AddedTravelUnfloored(prev_to_new, new_to_next, prev_to_next) ==
    prev_to_new + new_to_next - prev_to_next

\* the two legs through the new event, the direct leg not taken off
AddedTravelNoDirectLeg(prev_to_new, new_to_next, prev_to_next) ==
    Max(prev_to_new + new_to_next, 0)

\* round(max(prev_to_new + new_to_next - prev_to_next, 0.0), 1); the legs are
\* tenths already, so the rounding changes nothing
AddedTravel(prev_to_new, new_to_next, prev_to_next) ==
    Max(prev_to_new + new_to_next - prev_to_next, 0)

\* the dict appended for a candidate, its neighbours and its three legs known
SuggestionFrom(nb, prev_to_new, new_to_next, prev_to_next, cand_start, cand_end) ==
    LET added_travel == AddedTravel(prev_to_new, new_to_next, prev_to_next)
        total_travel == prev_to_new + new_to_next
        before_event_id == IF nb.previous # None THEN nb.previous[1].id ELSE None
        after_event_id == IF nb.next # None THEN nb.next[1].id ELSE None
    IN  [start_at |-> isoformat(cand_start),
         end_at |-> isoformat(cand_end),
         before_event_id |-> before_event_id,
         after_event_id |-> after_event_id,
         added_travel_min |-> added_travel,
         total_travel_min |-> total_travel,
         explanation |-> <<IF before_event_id # None THEN before_event_id ELSE <<"START">>,
                           IF after_event_id # None THEN after_event_id ELSE <<"END">>,
                           added_travel>>]

\* the body of the for loop from the neighbour lookup to the dict appended
Suggestion(evs, new_location, cand_start, cand_end) ==
    LET nb == neighbors_for_slot(evs, cand_start, cand_end)
        prev_to_new == IF nb.previous # None
                       THEN estimate_travel_minutes(LocationOf(nb.previous[1]), new_location)
                       ELSE 0
        new_to_next == IF nb.next # None
                       THEN estimate_travel_minutes(new_location, LocationOf(nb.next[1]))
                       ELSE 0
        prev_to_next == IF nb.previous # None /\ nb.next # None
                        THEN estimate_travel_minutes(LocationOf(nb.previous[1]),
                                                     LocationOf(nb.next[1]))
                        ELSE 0
    IN  SuggestionFrom(nb, prev_to_new, new_to_next, prev_to_next, cand_start, cand_end)

\* key = lambda item: (item["added_travel_min"], item["start_at"])
KeyLess(a, b) ==
    \/ a.added_travel_min < b.added_travel_min
    \/ /\ a.added_travel_min = b.added_travel_min
       /\ StrLess(a.start_at, b.start_at)

\* sorted(suggestions, key = ...): stable
RECURSIVE InsertByKey(_, _)
InsertByKey(sorted, item) ==
    IF sorted = <<>> THEN <<item>>
    ELSE IF KeyLess(item, Head(sorted))
         THEN <<item>> \o sorted
         ELSE <<Head(sorted)>> \o InsertByKey(Tail(sorted), item)

RECURSIVE SortedSuggestions(_)
SortedSuggestions(items) ==
    IF items = <<>> THEN <<>>
    ELSE InsertByKey(SortedSuggestions(SubSeq(items, 1, Len(items) - 1)),
                     items[Len(items)])

\* the first MAX_SUGGESTIONS found, then sorted
RankedTruncatedFirst(items) ==
    SortedSuggestions(SubSeq(items, 1, Min(Len(items), MAX_SUGGESTIONS)))

\* ranked = sorted(...); return ranked[:MAX_SUGGESTIONS]
Ranked(items) ==
    LET ranked == SortedSuggestions(items)
    IN  SubSeq(ranked, 1, Min(Len(ranked), MAX_SUGGESTIONS))

\* lines 95-98: the call starts, the windows are built
Call ==
    /\ pc = "call"
    /\ windows' = build_candidate_windows(date_start, date_end, events)
    /\ wi' = 1
    /\ pc' = "loop"
    /\ UNCHANGED <<args, suggestions, result, raised, lookups, service, process>>

\* lines 100-107: a window too short for buffer + duration + buffer is passed over
SkipWindow ==
    /\ pc = "loop"
    /\ wi <= Len(windows)
    /\ Rejected(candidate_end, buffer_minutes, window.end)
    /\ wi' = wi + 1
    /\ UNCHANGED <<args, pc, windows, suggestions, result, raised, lookups, service, process>>

\* lines 100-149: a window that fits yields one scored candidate
ScoreWindow ==
    /\ pc = "loop"
    /\ wi <= Len(windows)
    /\ ~Rejected(candidate_end, buffer_minutes, window.end)
    /\ suggestions' = Append(suggestions,
                             Suggestion(events, new_event, candidate_start, candidate_end))
    /\ wi' = wi + 1
    /\ UNCHANGED <<args, pc, windows, result, raised, lookups, service, process>>

\* lines 151-155: the candidates are ranked and the first ten returned
Return ==
    /\ pc = "loop"
    /\ wi > Len(windows)
    /\ result' = Ranked(suggestions)
    /\ pc' = "returned"
    /\ UNCHANGED <<args, windows, wi, suggestions, raised, lookups, service, process>>

----------------------------------------------------------------------------
(* recommend_slots asking the location service for its travel times, as its  *)
(* callers pass it one (routes/recommendations.py, tests): each leg is       *)
(* location_service.estimate_travel_minutes(origin, destination)             *)

\* what the network provider answers when it answers: no less than 2.0 minutes
RoadMinutes(origin, destination) == estimate_travel_minutes(origin, destination) + 15

LookupFailures == {"RoutingError", "GeocodingError", "ProviderConfigurationError"}

PrimaryAnswers(origin, destination) ==
    {Ok(RoadMinutes(origin, destination))} \cup {Raise(e) : e \in LookupFailures}

FallbackAnswers(origin, destination) ==
    {Ok(estimate_travel_minutes(origin, destination)), Raise("RoutingError"),
     Raise("ValueError")}

\* every way a call of LocationService.estimate_travel_minutes can go
ServiceAnswers(origin, destination) ==
    {LocationServiceEstimate(origin, destination, primary, fallback) :
        primary \in PrimaryAnswers(origin, destination),
        fallback \in FallbackAnswers(origin, destination)}

\* the lookups a candidate needs, in the order the loop body makes them
LegsFor(nb, new_location) ==
    (IF nb.previous # None
     THEN <<[leg |-> "prev_to_new", origin |-> LocationOf(nb.previous[1]),
             destination |-> new_location]>>
     ELSE <<>>)
    \o (IF nb.next # None
        THEN <<[leg |-> "new_to_next", origin |-> new_location,
                destination |-> LocationOf(nb.next[1])]>>
        ELSE <<>>)
    \o (IF nb.previous # None /\ nb.next # None
        THEN <<[leg |-> "prev_to_next", origin |-> LocationOf(nb.previous[1]),
                destination |-> LocationOf(nb.next[1])]>>
        ELSE <<>>)

\* the ways the first k lookups of legs can go with none of them raising
RECURSIVE AnsweredRuns(_, _)
AnsweredRuns(legs, k) ==
    IF k = 0 THEN {<<>>}
    ELSE {Append(run, done) :
             run \in AnsweredRuns(legs, k - 1),
             done \in {d \in ServiceAnswers(legs[k].origin, legs[k].destination) :
                          d.outcome.ok}}

\* the ways the k-th lookup of legs can raise
RaisingAnswers(legs, k) ==
    {d \in ServiceAnswers(legs[k].origin, legs[k].destination) : ~d.outcome.ok}

\* a leg's minutes among the lookups made, 0.0 for a leg not looked up
LegMinutes(legs, run, name) ==
    IF \E i \in 1..Len(legs) : legs[i].leg = name
    THEN run[CHOOSE i \in 1..Len(legs) : legs[i].leg = name].outcome.value[1]
    ELSE 0

Logged(legs, run) ==
    [i \in 1..Len(run) |->
        [window |-> wi, leg |-> legs[i].leg, outcome |-> run[i].outcome,
         provider_calls |-> run[i].provider_calls]]

\* an exception inside the loop is caught and the candidates so far returned
AfterFailureReturningPartial(sugs, error) ==
    [pc |-> "returned", result |-> Ranked(sugs), raised |-> "none"]

\* recommend_slots has no handler: an exception raised in the loop leaves it
AfterFailure(sugs, error) ==
    [pc |-> "raised", result |-> <<>>, raised |-> error]

\* a window that fits, every lookup of its candidate answered
ScoreViaService ==
    /\ pc = "loop"
    /\ wi <= Len(windows)
    /\ ~Rejected(candidate_end, buffer_minutes, window.end)
    /\ LET nb == neighbors_for_slot(events, candidate_start, candidate_end)
           legs == LegsFor(nb, new_event)
       IN  \E run \in AnsweredRuns(legs, Len(legs)) :
              /\ suggestions' =
                    Append(suggestions,
                           SuggestionFrom(nb, LegMinutes(legs, run, "prev_to_new"),
                                          LegMinutes(legs, run, "new_to_next"),
                                          LegMinutes(legs, run, "prev_to_next"),
                                          candidate_start, candidate_end))
              /\ lookups' = lookups \o Logged(legs, run)
    /\ wi' = wi + 1
    /\ UNCHANGED <<args, pc, windows, result, raised, service, process>>

\* a window that fits, the k-th lookup of its candidate raising
LookupFails ==
    /\ pc = "loop"
    /\ wi <= Len(windows)
    /\ ~Rejected(candidate_end, buffer_minutes, window.end)
    /\ LET nb == neighbors_for_slot(events, candidate_start, candidate_end)
           legs == LegsFor(nb, new_event)
       IN  \E k \in 1..Len(legs) :
              \E run \in AnsweredRuns(legs, k - 1), failed \in RaisingAnswers(legs, k) :
              /\ lookups' = lookups \o Logged(legs, Append(run, failed))
              /\ LET after == AfterFailure(suggestions, failed.outcome.error)
                 IN  /\ pc' = after.pc
                     /\ result' = after.result
                     /\ raised' = after.raised
    /\ UNCHANGED <<args, windows, wi, suggestions, service, process>>

----------------------------------------------------------------------------
(* LocationService called on its own *)

\* the model stops after this many LocationService calls
MaxCalls == 3
\* an address is a string of at most this many characters
MaxAddrLen == 3

Alphabet == {" ", "a"}
Addresses == UNION {[1..n -> Alphabet] : n \in 0..MaxAddrLen}

CharCode(c) ==
    IF c = " " THEN 1 ELSE IF c = "a" THEN 2 ELSE IF c = "b" THEN 3 ELSE 4

\* the provider's point for a string: no two strings share one
RECURSIVE PointLat(_)
PointLat(key) ==
    IF key = <<>> THEN 0 ELSE CharCode(Head(key)) + 5 * PointLat(Tail(key))

GeoPointFor(key) == [lat |-> PointLat(key), lng |-> 0]

GeocodeFailures == {"GeocodingError", "ProviderConfigurationError"}

\* what geocoding_provider.geocode(key) can come to
GeocodeAnswers(key) ==
    {Ok(GeoPointFor(key))} \cup {Raise(e) : e \in GeocodeFailures}

\* geocode_address: normalize_address raises ValueError, nothing else is done
GeocodeInvalid ==
    /\ pc = "idle"
    /\ calls_made < MaxCalls
    /\ \E address \in Addresses :
          /\ normalize_address(address) = <<>>
          /\ last_call' = [op |-> "geocode_address", request |-> <<address>>,
                           provider_calls |-> <<>>, outcome |-> Raise("ValueError")]
    /\ calls_made' = calls_made + 1
    /\ UNCHANGED <<args, engine, fallback_routing_provider, geocode_cache, process>>

\* geocode_address: the normalized string is in the cache
GeocodeHit ==
    /\ pc = "idle"
    /\ calls_made < MaxCalls
    /\ \E address \in Addresses :
          LET normalized == normalize_address(address)
          IN  /\ normalized # <<>>
              /\ normalized \in CacheKeys(geocode_cache)
              /\ last_call' = [op |-> "geocode_address", request |-> <<address>>,
                               provider_calls |-> <<>>,
                               outcome |-> [ok |-> TRUE,
                                            value |-> CacheValue(geocode_cache, normalized),
                                            error |-> "none"]]
              /\ geocode_cache' = Touched(geocode_cache, normalized)
    /\ calls_made' = calls_made + 1
    /\ UNCHANGED <<args, engine, fallback_routing_provider, process>>

\* geocode_address: a miss, the provider is asked
GeocodeMiss ==
    /\ pc = "idle"
    /\ calls_made < MaxCalls
    /\ \E address \in Addresses :
          LET normalized == normalize_address(address)
          IN  /\ normalized # <<>>
              /\ normalized \notin CacheKeys(geocode_cache)
              /\ \E answer \in GeocodeAnswers(normalized) :
                    /\ last_call' = [op |-> "geocode_address", request |-> <<address>>,
                                     provider_calls |->
                                         <<[provider |-> "geocoding",
                                            args |-> <<normalized>>,
                                            answer |-> answer]>>,
                                     outcome |-> answer]
                    /\ geocode_cache' = CacheAfterMiss(geocode_cache, normalized, answer)
    /\ calls_made' = calls_made + 1
    /\ UNCHANGED <<args, engine, fallback_routing_provider, process>>

ServicePlaces == {[lat |-> 0, lng |-> 0], [lat |-> 408, lng |-> 0]}

\* LocationService.estimate_travel_minutes
EstimateTravel ==
    /\ pc = "idle"
    /\ calls_made < MaxCalls
    /\ \E origin \in ServicePlaces, destination \in ServicePlaces :
          \E primary \in PrimaryAnswers(origin, destination),
             fallback \in FallbackAnswers(origin, destination) :
             LET done == LocationServiceEstimate(origin, destination, primary, fallback)
             IN  last_call' = [op |-> "estimate_travel_minutes",
                               request |-> <<origin, destination>>,
                               provider_calls |-> done.provider_calls,
                               outcome |-> done.outcome]
    /\ calls_made' = calls_made + 1
    /\ UNCHANGED <<args, engine, fallback_routing_provider, geocode_cache, process>>

----------------------------------------------------------------------------
(* The calls the model makes: the arguments of recommend_slots *)

\* place p of the meridian
PlaceAt(p) == [lat |-> p * 204, lng |-> 0]

\* instant k of the grid: 06:00 of day 0 and every six hours from there
Tick(k) == Naive(6 * 60 + k * 6 * 60)

FreeIntervals ==
    {iv \in (0..MaxTick) \X (1..MaxEventLen) : iv[1] + iv[2] <= MaxTick}

\* the i-th event of a free calendar
FreeEvent(i, iv) ==
    [id |-> <<i>>, start_at |-> Tick(iv[1]), end_at |-> Tick(iv[1] + iv[2]),
     lat |-> PlaceAt(iv[1] % 3).lat, lng |-> 0]

\* (duration_minutes, buffer_minutes) asked of a free calendar
FreeDurBuf == {<<30, 20>>, <<60, 0>>}

\* any events of the grid in any order, overlapping or not
FreeEvents ==
    \E n \in 0..MaxEvents : \E ivs \in [1..n -> FreeIntervals] :
        events = [i \in 1..n |-> FreeEvent(i, ivs[i])]

FreeRequest ==
    /\ \E db \in FreeDurBuf :
          /\ duration_minutes = db[1]
          /\ buffer_minutes = db[2]
    /\ new_event = PlaceAt(1)

\* a free calendar asked about any range of the grid
InitFree ==
    /\ FreeEvents
    /\ FreeRequest
    /\ \E a, b \in 0..MaxTick :
          /\ a < b
          /\ date_start = Tick(a)
          /\ date_end = Tick(b)

\* a free calendar asked about day 0 from 06:00 on
InitFreeDay ==
    /\ FreeEvents
    /\ FreeRequest
    /\ date_start = Tick(0)
    /\ date_end = Tick(3)

\* slot k of the busy day is 50 minutes from 08:00: 30 free, then a visit of 20
BusyEvent(k, stride) ==
    [id |-> <<k + 1>>,
     start_at |-> Naive(8 * 60 + k * 50 + 30),
     end_at |-> Naive(8 * 60 + k * 50 + 50),
     lat |-> PlaceAt((k * stride) % 3).lat, lng |-> 0]

RECURSIVE BusyEvents(_, _, _)
BusyEvents(k, absent, stride) ==
    IF k >= NSlots THEN <<>>
    ELSE (IF k \in absent THEN <<>> ELSE <<BusyEvent(k, stride)>>)
         \o BusyEvents(k + 1, absent, stride)

BusyDurBuf == {<<10, 10>>, <<30, 0>>, <<30, 10>>}

\* a busy day: a visit in nearly every slot, in start order
InitBusy ==
    /\ \E absent \in SUBSET (0..(NSlots - 1)) : \E stride \in 0..MaxStride :
          /\ Cardinality(absent) <= MaxAbsent
          /\ events = BusyEvents(0, absent, stride)
    /\ date_start = Tick(0)
    /\ date_end = Tick(3)
    /\ \E db \in BusyDurBuf :
          /\ duration_minutes = db[1]
          /\ buffer_minutes = db[2]
    /\ \E p \in 0..2 : new_event = PlaceAt(p)

EngineAtCall ==
    /\ pc = "call"
    /\ windows = <<>>
    /\ wi = 1
    /\ suggestions = <<>>
    /\ result = <<>>
    /\ raised = "none"
    /\ lookups = <<>>

\* no request is being served
NoRequests == requests = <<>>

\* a variable of the environment: None when unset, else <<text>>, the text a
\* word with or without capitals and with or without blanks around it
Plain(word) == [word |-> word, cased |-> FALSE, padded |-> FALSE]

EnvNames ==
    {"LOCATION_PROVIDER", "GEO_TIMEOUT_SECONDS", "ROUTING_FALLBACK", "GEOAPIFY_API_KEY"}

\* nothing set, and get_location_service not called yet
\* no table is read
NothingStored == stored_events = <<>>

GetterUnused ==
    /\ environ = [name \in EnvNames |-> None]
    /\ service_memo = None

ServiceFresh ==
    /\ geocode_cache = <<>>
    /\ calls_made = 0
    /\ last_call = NoCall
    /\ NoRequests
    /\ GetterUnused
    /\ NothingStored

\* recommend_slots as the source has it, on a free calendar or a busy day
Init ==
    /\ InitFree \/ InitBusy
    /\ EngineAtCall
    /\ fallback_routing_provider = None
    /\ ServiceFresh

Next == Call \/ SkipWindow \/ ScoreWindow \/ Return

Spec == Init /\ [][Next]_vars

\* recommend_slots asking a location service, with or without a fallback
InitSvc ==
    /\ InitFreeDay
    /\ EngineAtCall
    /\ fallback_routing_provider \in {None, <<"fallback">>}
    /\ ServiceFresh

NextSvc == Call \/ SkipWindow \/ ScoreViaService \/ LookupFails \/ Return

SpecSvc == InitSvc /\ [][NextSvc]_vars

\* a LocationService, with or without a fallback, called a few times
InitLoc ==
    /\ events = <<>>
    /\ date_start = Tick(0)
    /\ date_end = Tick(1)
    /\ duration_minutes = 30
    /\ buffer_minutes = 0
    /\ new_event = PlaceAt(1)
    /\ pc = "idle"
    /\ windows = <<>>
    /\ wi = 1
    /\ suggestions = <<>>
    /\ result = <<>>
    /\ raised = "none"
    /\ lookups = <<>>
    /\ fallback_routing_provider \in {None, <<"fallback">>}
    /\ ServiceFresh

NextLoc == GeocodeInvalid \/ GeocodeHit \/ GeocodeMiss \/ EstimateTravel

SpecLoc == InitLoc /\ [][NextLoc]_vars

\* the i-th of the addresses geocoded earlier in the life of the process:
\* eleven characters, no two alike, none of them one of Addresses
OtherAddress(i) ==
    [k \in 1..11 |-> IF (i \div (2 ^ (k - 1))) % 2 = 0 THEN "b" ELSE "c"]

CacheEntry(key) == [key |-> key, value |-> <<GeoPointFor(key)>>]

\* the cache after "a" and then n - 1 other addresses were geocoded, n >= 1
WarmCache(n) ==
    <<CacheEntry(<<"a">>)>> \o [i \in 1..(n - 1) |-> CacheEntry(OtherAddress(i))]

\* no recommend_slots call is under way
EngineUnused ==
    /\ events = <<>>
    /\ date_start = Tick(0)
    /\ date_end = Tick(1)
    /\ duration_minutes = 30
    /\ buffer_minutes = 0
    /\ new_event = PlaceAt(1)
    /\ pc = "idle"
    /\ windows = <<>>
    /\ wi = 1
    /\ suggestions = <<>>
    /\ result = <<>>
    /\ raised = "none"
    /\ lookups = <<>>

\* a LocationService whose cache is one short of full, or full; the calls
\* that filled it count as the first of the MaxCalls
InitFull ==
    /\ EngineUnused
    /\ fallback_routing_provider = None
    /\ geocode_cache \in {WarmCache(CacheMaxSize - 1), WarmCache(CacheMaxSize)}
    /\ calls_made = 1
    /\ last_call = NoCall
    /\ NoRequests
    /\ GetterUnused
    /\ NothingStored

NextFull == GeocodeInvalid \/ GeocodeHit \/ GeocodeMiss

SpecFull == InitFull /\ [][NextFull]_vars

----------------------------------------------------------------------------
(* The operations that keep no state, each called once on an input *)

\* a typed address is a string of at most this many characters
MaxTypedLen == 5

TypedAddresses == UNION {[1..n -> {" ", "\t", "a", "b"}] : n \in 0..MaxTypedLen}

\* LocationService.normalize_address(address)
NormalizeAddress ==
    /\ pc = "idle"
    /\ last_call = NoCall
    /\ \E address \in TypedAddresses :
          LET normalized == normalize_address(address)
          IN  last_call' = [op |-> "normalize_address", request |-> <<address>>,
                            provider_calls |-> <<>>,
                            outcome |-> IF normalized = <<>>
                                        THEN Raise("ValueError")
                                        ELSE Ok(normalized)]
    /\ calls_made' = calls_made + 1
    /\ UNCHANGED <<args, engine, fallback_routing_provider, geocode_cache, process>>

(* LocationService.suggest_addresses(query, limit), which the address route   *)
(* and the tests call: a passthrough to the geocoding provider's suggestions *)

MinQueryLength == 3

\* a query is a string of at most this many characters
MaxQueryLen == 4

Queries == UNION {[1..n -> {" ", "a"}] : n \in 0..MaxQueryLen}

Limits == {1, 5}

\* what the provider has to suggest for a query, cut to limit
ProviderSuggestions(query, limit) ==
    SubSeq(<<query, query \o <<"a">>, query \o <<"b">> >>, 1, Min(limit, 3))

SuggestAnswers(query, limit) ==
    {Ok(ProviderSuggestions(query, limit)), Raise("GeocodingError")}

\* the provider asked whatever the length of the query
SuggestAlwaysAsking(query, limit, answer) ==
    [outcome |-> answer,
     provider_calls |-> <<[provider |-> "geocoding", args |-> <<query, limit>>,
                           answer |-> answer]>>]

\* answer is what the provider answers when it is asked
SuggestThroughService(query, limit, answer) ==
    IF Len(query) < MinQueryLength
    THEN [outcome |-> Ok(<<>>), provider_calls |-> <<>>]
    ELSE [outcome |-> answer,
          provider_calls |-> <<[provider |-> "geocoding", args |-> <<query, limit>>,
                                answer |-> answer]>>]

SuggestAddresses ==
    /\ pc = "idle"
    /\ last_call = NoCall
    /\ \E query \in Queries, limit \in Limits :
          \E answer \in SuggestAnswers(query, limit) :
             LET done == SuggestThroughService(query, limit, answer)
             IN  last_call' = [op |-> "suggest_addresses", request |-> <<query, limit>>,
                               provider_calls |-> done.provider_calls,
                               outcome |-> done.outcome]
    /\ calls_made' = calls_made + 1
    /\ UNCHANGED <<args, engine, fallback_routing_provider, geocode_cache, process>>

(* GeoapifyProvider: one HTTP exchange per call *)

\* an exception raised, with the exception it was raised from (None if none)
RaiseFrom(e, cause) == [ok |-> FALSE, value |-> <<>>, error |-> e, cause |-> cause]

\* what urlopen raises that _get_json catches
CaughtTransportErrors == {"TimeoutError", "HTTPError", "URLError"}

\* what reading the body raises that _get_json does not catch: bytes that are
\* not UTF-8, text that is not JSON
UncaughtBodyErrors == {"UnicodeDecodeError", "JSONDecodeError"}

\* a JSON value where a number is expected: absent, a string, or a number
Absent == [kind |-> "absent", number |-> 0]
Text == [kind |-> "string", number |-> 0]
Number(n) == [kind |-> "number", number |-> n]
JsonFields(numbers) == {Absent, Text} \cup {Number(n) : n \in numbers}

\* the JSON documents a 200 response can carry: an array, or an object with
\* no features or one feature
Payloads ==
    {[is_object |-> FALSE, features |-> <<>>], [is_object |-> TRUE, features |-> <<>>]}
    \cup {[is_object |-> TRUE,
           features |-> <<[lat |-> lat, lon |-> lon, time |-> time]>>] :
              lat \in JsonFields({1}), lon \in JsonFields({2}),
              time \in JsonFields({6, 600})}

\* how the exchange goes: an error, or a body
Exchanges ==
    {[raises |-> e] : e \in CaughtTransportErrors \cup UncaughtBodyErrors}
    \cup {[raises |-> "none", payload |-> payload] : payload \in Payloads}

\* GeoapifyProvider._get_json
get_json(exchange) ==
    IF exchange.raises \in CaughtTransportErrors
    THEN RaiseFrom("RuntimeError", <<exchange.raises>>)
    ELSE IF exchange.raises \in UncaughtBodyErrors
    THEN RaiseFrom(exchange.raises, None)
    ELSE Ok(exchange.payload)

\* float(x) of a JSON field that is there
Float(field) == IF field = Text THEN RaiseFrom("ValueError", None) ELSE Ok(field.number)

\* GeoapifyProvider.geocode
geocode(exchange) ==
    LET got == get_json(exchange)
    IN  IF ~got.ok
        THEN (IF got.error = "RuntimeError"
              THEN RaiseFrom("GeocodingError", <<"RuntimeError">>)
              ELSE got)
        ELSE LET payload == got.value[1]
             IN  IF ~payload.is_object THEN RaiseFrom("AttributeError", None)
                 ELSE IF payload.features = <<>> THEN RaiseFrom("GeocodingError", None)
                 ELSE LET properties == payload.features[1]
                      IN  IF properties.lat = Absent \/ properties.lon = Absent
                          THEN RaiseFrom("GeocodingError", None)
                          ELSE IF ~Float(properties.lat).ok THEN Float(properties.lat)
                          ELSE IF ~Float(properties.lon).ok THEN Float(properties.lon)
                          ELSE Ok([lat |-> properties.lat.number, lng |-> properties.lon.number])

\* GeoapifyProvider.estimate_travel_minutes, in tenths of a minute
geoapify_estimate_travel_minutes(exchange) ==
    LET got == get_json(exchange)
    IN  IF ~got.ok
        THEN (IF got.error = "RuntimeError"
              THEN RaiseFrom("RoutingError", <<"RuntimeError">>)
              ELSE got)
        ELSE LET payload == got.value[1]
             IN  IF ~payload.is_object THEN RaiseFrom("AttributeError", None)
                 ELSE IF payload.features = <<>> THEN RaiseFrom("RoutingError", None)
                 ELSE LET travel_seconds == payload.features[1].time
                      IN  IF travel_seconds = Absent THEN RaiseFrom("RoutingError", None)
                          ELSE IF ~Float(travel_seconds).ok THEN Float(travel_seconds)
                          ELSE Ok(Round1(Max((travel_seconds.number * 100) \div 60, 200)))

ProviderGeocode ==
    /\ pc = "idle"
    /\ last_call = NoCall
    /\ \E exchange \in Exchanges :
          last_call' = [op |-> "GeoapifyProvider.geocode", request |-> << <<"a">> >>,
                        provider_calls |-> <<[provider |-> "api.geoapify.com",
                                              args |-> <<"geocode/search">>,
                                              answer |-> exchange]>>,
                        outcome |-> geocode(exchange)]
    /\ calls_made' = calls_made + 1
    /\ UNCHANGED <<args, engine, fallback_routing_provider, geocode_cache, process>>

ProviderEstimate ==
    /\ pc = "idle"
    /\ last_call = NoCall
    /\ \E exchange \in Exchanges :
          last_call' = [op |-> "GeoapifyProvider.estimate_travel_minutes",
                        request |-> <<PlaceAt(0), PlaceAt(1)>>,
                        provider_calls |-> <<[provider |-> "api.geoapify.com",
                                              args |-> <<"routing">>,
                                              answer |-> exchange]>>,
                        outcome |-> geoapify_estimate_travel_minutes(exchange)]
    /\ calls_made' = calls_made + 1
    /\ UNCHANGED <<args, engine, fallback_routing_provider, geocode_cache, process>>

(* the haversine estimator: travel_service.estimate_travel_minutes and        *)
(* HaversineRoutingProvider.estimate_travel_minutes compute the same         *)

HaversinePoints ==
    {[lat |-> lat, lng |-> lng] : lat \in {-204, 0, 3, 204, 215, 225}, lng \in {0, 180}}

\* in floating point the haversine term a of two antipodal points comes out
\* as 1.0 or as the next float above it, depending on the coordinates
ATerms(origin, destination) ==
    IF HaversineMinutes(origin, destination) = HalfTurn
    THEN {"one", "above one"}
    ELSE {"at most one"}

\* an estimator that raises nothing, whatever a comes out as
HaversineClamped(origin, destination, a) ==
    Ok(estimate_travel_minutes(origin, destination))

\* math.sqrt(1 - a) raises ValueError (math domain error) when a > 1
HaversineOutcome(origin, destination, a) ==
    IF a = "above one"
    THEN Raise("ValueError")
    ELSE Ok(estimate_travel_minutes(origin, destination))

HaversineEstimate ==
    /\ pc = "idle"
    /\ last_call = NoCall
    /\ \E origin \in HaversinePoints, destination \in HaversinePoints :
          \E a \in ATerms(origin, destination) :
             last_call' = [op |-> "HaversineRoutingProvider.estimate_travel_minutes",
                           request |-> <<origin, destination>>,
                           provider_calls |-> <<>>,
                           outcome |-> HaversineOutcome(origin, destination, a)]
    /\ calls_made' = calls_made + 1
    /\ UNCHANGED <<args, engine, fallback_routing_provider, geocode_cache, process>>

(* POST /api/recommendations (routes/recommendations.py) *)

\* a date field of the payload: absent, a string isoparse rejects, or a datetime
NoDate == [kind |-> "absent", at |-> Naive(0)]
BadDate == [kind |-> "string", at |-> Naive(0)]
IsoDate(at) == [kind |-> "iso", at |-> at]

PayloadDates ==
    {NoDate, BadDate, IsoDate(Naive(660)), IsoDate(Naive(720)),
     IsoDate([wall |-> 720, tzinfo |-> <<0>>]), IsoDate([wall |-> 720, tzinfo |-> <<60>>])}

\* the JSON objects posted; a str field is None when absent, <<value>> when present
PostedPayloads ==
    [date_start : PayloadDates,
     date_end : PayloadDates,
     sales_rep_id : {None, <<"rep">>},
     new_event_duration_min : {Absent, Text, Number(0), Number(30)},
     buffer_min : {Absent, Text, Number(-5)},
     new_event_address : {None, <<(<<" ">>)>>, <<(<<"a">>)>>},
     new_event_lat : {Absent, Number(48)},
     new_event_lng : {Absent, Number(2)}]

RequiredFields ==
    <<"date_start", "date_end", "sales_rep_id", "new_event_duration_min",
      "new_event_address">>

\* key not in payload
Missing(payload, key) ==
    CASE key = "date_start" -> payload.date_start = NoDate
      [] key = "date_end" -> payload.date_end = NoDate
      [] key = "sales_rep_id" -> payload.sales_rep_id = None
      [] key = "new_event_duration_min" -> payload.new_event_duration_min = Absent
      [] key = "new_event_address" -> payload.new_event_address = None

MissingFields(payload) ==
    SelectSeq(RequiredFields, LAMBDA key : Missing(payload, key))

Response(status, error) == [status |-> status, error |-> error]

\* what the try block of the route can come to once the events are queried
Upstreams ==
    {"suggestions", "ValueError", "GeocodingError", "RoutingError",
     "ProviderConfigurationError", "Exception"}

Answer(upstream) ==
    CASE upstream = "suggestions" -> Response(200, "none")
      [] upstream = "ValueError" -> Response(400, "str(exc)")
      [] upstream \in {"GeocodingError", "RoutingError"} -> Response(502, "str(exc)")
      [] upstream = "ProviderConfigurationError" -> Response(503, "str(exc)")
      [] OTHER -> Response(502, "Upstream routing/geocoding provider failure")

\* the response, and the event query and provider calls made for it
get_recommendations(payload, upstream) ==
    LET rejected(error) == [response |-> Response(400, error), calls |-> <<>>]
        missing == MissingFields(payload)
        duration == payload.new_event_duration_min
        buffer_min == IF payload.buffer_min = Absent THEN Number(10) ELSE payload.buffer_min
    IN  IF missing # <<>>
        THEN rejected(<<"missing fields", missing>>)
        ELSE IF payload.date_start.kind # "iso" \/ payload.date_end.kind # "iso"
        THEN rejected(<<"date_start and date_end must be valid ISO datetime values">>)
        ELSE IF to_naive_utc(payload.date_end.at).wall
                   <= to_naive_utc(payload.date_start.at).wall
        THEN rejected(<<"date_end must be after date_start">>)
        ELSE IF duration.kind # "number"
        THEN rejected(<<"new_event_duration_min must be an integer">>)
        ELSE IF duration.number <= 0
        THEN rejected(<<"new_event_duration_min must be positive">>)
        ELSE IF buffer_min.kind # "number"
        THEN rejected(<<"buffer_min must be an integer">>)
        ELSE IF buffer_min.number < 0
        THEN rejected(<<"buffer_min must be zero or positive">>)
        ELSE IF Strip(payload.new_event_address[1]) = <<>>
        THEN rejected(<<"new_event_address must be non-empty">>)
        ELSE [response |-> [Answer(upstream) EXCEPT !.error = <<@>>],
              calls |-> <<"SalesEvent.query", "get_location_service",
                          "geocode_address">>]

GetRecommendations ==
    /\ pc = "idle"
    /\ last_call = NoCall
    /\ \E payload \in PostedPayloads, upstream \in Upstreams :
          LET handled == get_recommendations(payload, upstream)
          IN  last_call' = [op |-> "POST /api/recommendations",
                            request |-> payload,
                            provider_calls |-> handled.calls,
                            outcome |-> Ok(handled.response)]
    /\ calls_made' = calls_made + 1
    /\ UNCHANGED <<args, engine, fallback_routing_provider, geocode_cache, process>>

(* to_naive_utc *)

\* naive values, and aware ones east and west of UTC; several denote one instant
ConvertedValues ==
    {[wall |-> wall, tzinfo |-> tzinfo] :
        wall \in {0, 60, 120, 480, 1380},
        tzinfo \in {None, <<0>>, <<60>>, <<120>>, <<-300>>, <<-360>>}}

ToNaiveUtc ==
    /\ pc = "idle"
    /\ last_call = NoCall
    /\ \E value \in ConvertedValues :
          last_call' = [op |-> "to_naive_utc",
                        request |-> value,
                        provider_calls |-> <<>>,
                        outcome |-> Ok(to_naive_utc(value))]
    /\ calls_made' = calls_made + 1
    /\ UNCHANGED <<args, engine, fallback_routing_provider, geocode_cache, process>>

InitOnce ==
    /\ EngineUnused
    /\ fallback_routing_provider = None
    /\ ServiceFresh

NextOnce ==
    \/ NormalizeAddress
    \/ SuggestAddresses
    \/ ProviderGeocode
    \/ ProviderEstimate
    \/ HaversineEstimate
    \/ ToNaiveUtc
    \/ GetRecommendations

SpecOnce == InitOnce /\ [][NextOnce]_vars

----------------------------------------------------------------------------
(* geocode_address called by concurrent requests.  The lru_cache wrapper     *)
(* looks the key up holding its lock, calls the wrapped function with the    *)
(* lock released, and takes the lock again to store what was returned; the   *)
(* provider's network call is where another request gets to run.             *)

\* how many requests are served at once
NRequests == 2

ConcurrentAddresses ==
    {<<" ">>, <<"a">>, <<"a", "a">>, <<" ", "a", "a">>, <<"a", "a", "a">>}

NoOutcome == [ok |-> TRUE, value |-> <<>>, error |-> "none"]

\* a request that has yet to call geocode_address(address)
Arrived(address) ==
    [pc |-> "arrived", address |-> address, key |-> <<>>, asked |-> FALSE,
     outcome |-> NoOutcome]

\* the call of a request is over
Served(request, asked, outcome) ==
    [request EXCEPT !.pc = "served", !.asked = asked, !.outcome = outcome]

\* the store made whether or not the key came into the cache meanwhile
CacheAfterCallUnchecked(cache, key, answer) == CacheAfterMiss(cache, key, answer)

\* the wrapper after the wrapped call: a key that another request stored
\* while the lock was released is left as it is
CacheAfterCall(cache, key, answer) ==
    IF key \in CacheKeys(cache) THEN cache ELSE CacheAfterMiss(cache, key, answer)

\* normalize_address and the wrapper's lookup: ValueError, a hit, or a miss
\* that sends the request to the provider
LookUp(t) ==
    /\ pc = "idle"
    /\ requests[t].pc = "arrived"
    /\ LET normalized == normalize_address(requests[t].address)
       IN  IF normalized = <<>>
           THEN /\ requests' = [requests EXCEPT
                                   ![t] = Served(@, FALSE, Raise("ValueError"))]
                /\ UNCHANGED geocode_cache
           ELSE IF normalized \in CacheKeys(geocode_cache)
           THEN /\ requests' = [requests EXCEPT
                                   ![t] = Served([@ EXCEPT !.key = normalized], FALSE,
                                                 [ok |-> TRUE,
                                                  value |-> CacheValue(geocode_cache,
                                                                       normalized),
                                                  error |-> "none"])]
                /\ geocode_cache' = Touched(geocode_cache, normalized)
           ELSE /\ requests' = [requests EXCEPT
                                   ![t] = [@ EXCEPT !.pc = "provider",
                                                    !.key = normalized]]
                /\ UNCHANGED geocode_cache
    /\ UNCHANGED <<args, engine, fallback_routing_provider, calls_made, last_call,
                   environ, service_memo, stored_events>>

\* geocoding_provider.geocode(key) returns or raises, and the wrapper stores
ProviderReturns(t) ==
    /\ pc = "idle"
    /\ requests[t].pc = "provider"
    /\ \E answer \in GeocodeAnswers(requests[t].key) :
          /\ requests' = [requests EXCEPT ![t] = Served(@, TRUE, answer)]
          /\ geocode_cache' = IF answer.ok
                              THEN CacheAfterCall(geocode_cache, requests[t].key, answer)
                              ELSE geocode_cache
    /\ UNCHANGED <<args, engine, fallback_routing_provider, calls_made, last_call,
                   environ, service_memo, stored_events>>

\* requests arrive together at a service whose cache is one short of full, or full
InitConc ==
    /\ EngineUnused
    /\ fallback_routing_provider = None
    /\ geocode_cache \in {WarmCache(CacheMaxSize - 1), WarmCache(CacheMaxSize)}
    /\ calls_made = 0
    /\ last_call = NoCall
    /\ requests \in [1..NRequests -> {Arrived(address) : address \in ConcurrentAddresses}]
    /\ GetterUnused
    /\ NothingStored

NextConc == \E t \in 1..NRequests : LookUp(t) \/ ProviderReturns(t)

SpecConc == InitConc /\ [][NextConc]_vars

----------------------------------------------------------------------------
(* get_location_service: the service built from the environment, memoized *)

Shouted(word) == [word |-> word, cased |-> TRUE, padded |-> TRUE]

\* str.strip() and str.lower() of an environment text
StripText(text) == [text EXCEPT !.padded = FALSE]
LowerText(text) == [text EXCEPT !.cased = FALSE]

\* os.getenv(name, default)
getenv(env, name, default) == IF env[name] = None THEN default ELSE env[name][1]

\* the values the model gives each variable
EnvValues(name) ==
    CASE name = "LOCATION_PROVIDER" ->
            {None, <<Plain("geoapify")>>, <<Shouted("geoapify")>>,
             <<Plain("geoapify-haversine")>>, <<Plain("unknown")>>}
      [] name = "ROUTING_FALLBACK" ->
            {None, <<Plain("off")>>, <<Plain("haversine")>>, <<Shouted("haversine")>>,
             <<Plain("invalid")>>}
      [] name = "GEOAPIFY_API_KEY" ->
            {None, <<[word |-> "", cased |-> FALSE, padded |-> TRUE]>>, <<Plain("key")>>}
      [] name = "GEO_TIMEOUT_SECONDS" ->
            {None, <<Plain("2.5")>>, <<Plain("soon")>>}

\* float(text): blanks around a float literal are accepted
IsFloatLiteral(text) == text.word \in {"8.0", "2.5"}

LocationServiceOf(routing_provider, fallback) ==
    [geocoding_provider |-> "GeoapifyProvider",
     routing_provider |-> routing_provider,
     fallback_routing_provider |-> fallback]

\* GeoapifyProvider.__init__: is the key refused
KeyMissing(env) == StripText(getenv(env, "GEOAPIFY_API_KEY", Plain(""))) = Plain("")

\* a getter that checks ROUTING_FALLBACK and builds the fallback whatever the
\* provider name
get_location_service_one_rule(env) ==
    LET provider_name == LowerText(StripText(getenv(env, "LOCATION_PROVIDER", Plain("geoapify"))))
        timeout == getenv(env, "GEO_TIMEOUT_SECONDS", Plain("8.0"))
        routing_fallback == LowerText(StripText(getenv(env, "ROUTING_FALLBACK", Plain("off"))))
    IN  IF ~IsFloatLiteral(timeout) THEN Raise("ValueError")
        ELSE IF provider_name \notin {Plain("geoapify"), Plain("geoapify-haversine")}
        THEN Raise("ProviderConfigurationError")
        ELSE IF KeyMissing(env) THEN Raise("ProviderConfigurationError")
        ELSE IF routing_fallback \notin {Plain("off"), Plain("haversine")}
        THEN Raise("ProviderConfigurationError")
        ELSE Ok(LocationServiceOf(
                    IF provider_name = Plain("geoapify")
                    THEN "GeoapifyProvider" ELSE "HaversineRoutingProvider",
                    IF routing_fallback = Plain("haversine")
                    THEN <<"HaversineRoutingProvider">> ELSE None))

\* the body of get_location_service
get_location_service(env) ==
    LET provider_name == LowerText(StripText(getenv(env, "LOCATION_PROVIDER", Plain("geoapify"))))
        timeout == getenv(env, "GEO_TIMEOUT_SECONDS", Plain("8.0"))
        routing_fallback == LowerText(StripText(getenv(env, "ROUTING_FALLBACK", Plain("off"))))
    IN  IF ~IsFloatLiteral(timeout) THEN Raise("ValueError")
        ELSE IF provider_name = Plain("geoapify")
        THEN IF KeyMissing(env) THEN Raise("ProviderConfigurationError")
             ELSE IF routing_fallback \notin {Plain("off"), Plain("haversine")}
             THEN Raise("ProviderConfigurationError")
             ELSE Ok(LocationServiceOf("GeoapifyProvider",
                                       IF routing_fallback = Plain("haversine")
                                       THEN <<"HaversineRoutingProvider">> ELSE None))
        ELSE IF provider_name = Plain("geoapify-haversine")
        THEN IF KeyMissing(env) THEN Raise("ProviderConfigurationError")
             ELSE Ok(LocationServiceOf("HaversineRoutingProvider", None))
        ELSE Raise("ProviderConfigurationError")

\* get_location_service() through its lru_cache(maxsize=1): the memoized
\* service if there is one; else the body runs and what it returns is stored
GetLocationService ==
    /\ pc = "idle"
    /\ LET outcome == IF service_memo # None
                      THEN Ok(service_memo[1])
                      ELSE get_location_service(environ)
       IN  /\ last_call' = [op |-> "get_location_service",
                            request |-> <<>>,
                            provider_calls |-> <<>>,
                            outcome |-> outcome]
           /\ service_memo' = IF outcome.ok THEN <<outcome.value[1]>> ELSE service_memo
    /\ UNCHANGED <<args, engine, fallback_routing_provider, geocode_cache, calls_made,
                   requests, environ, stored_events>>

\* get_location_service.cache_clear()
CacheClear ==
    /\ pc = "idle"
    /\ service_memo' = None
    /\ UNCHANGED <<args, engine, service, requests, environ, stored_events>>

\* the environment is changed between calls
SetEnv ==
    /\ pc = "idle"
    /\ \E name \in EnvNames :
       \E value \in EnvValues(name) :
          environ' = [environ EXCEPT ![name] = value]
    /\ UNCHANGED <<args, engine, service, requests, service_memo, stored_events>>

\* how the exchanges of the memoized service go: a timeout, a body that is
\* not JSON, no feature, a feature with every field
ServiceExchanges ==
    {[raises |-> "TimeoutError"], [raises |-> "JSONDecodeError"],
     [raises |-> "none", payload |-> [is_object |-> TRUE, features |-> <<>>]],
     [raises |-> "none",
      payload |-> [is_object |-> TRUE,
                   features |-> <<[lat |-> Number(1), lon |-> Number(2),
                                   time |-> Number(600)]>>]]}

\* the memoized service geocodes an address its cache does not hold
ServiceGeocode ==
    /\ pc = "idle"
    /\ service_memo # None
    /\ \E exchange \in ServiceExchanges :
          last_call' = [op |-> "geocode_address",
                        request |-> <<"a">>,
                        provider_calls |-> <<[provider |-> "api.geoapify.com",
                                              args |-> <<"geocode">>,
                                              answer |-> exchange]>>,
                        outcome |-> geocode(exchange)]
    /\ UNCHANGED <<args, engine, fallback_routing_provider, geocode_cache, calls_made,
                   process>>

\* the pairs of points the memoized service is asked about
RoutedPairs ==
    {<<[lat |-> 0, lng |-> 0], [lat |-> 225, lng |-> 0]>>,
     <<[lat |-> 204, lng |-> 0], [lat |-> -204, lng |-> 180]>>}

\* LocationService.estimate_travel_minutes of the memoized service
ServiceEstimate ==
    /\ pc = "idle"
    /\ service_memo # None
    /\ \E exchange \in ServiceExchanges, pair \in RoutedPairs :
          \E a \in ATerms(pair[1], pair[2]) :
             LET built == service_memo[1]
                 haversine == HaversineOutcome(pair[1], pair[2], a)
                 primary == IF built.routing_provider = "GeoapifyProvider"
                            THEN geoapify_estimate_travel_minutes(exchange)
                            ELSE haversine
                 outcome == IF ~primary.ok /\ primary.error = "RoutingError"
                                /\ built.fallback_routing_provider # None
                            THEN haversine
                            ELSE primary
             IN  last_call' = [op |-> "estimate_travel_minutes",
                               request |-> pair,
                               provider_calls |-> <<>>,
                               outcome |-> outcome]
    /\ UNCHANGED <<args, engine, fallback_routing_provider, geocode_cache, calls_made,
                   process>>

\* a process starts with nothing set and nothing memoized
InitCfg ==
    /\ EngineUnused
    /\ fallback_routing_provider = None
    /\ geocode_cache = <<>>
    /\ calls_made = 0
    /\ last_call = NoCall
    /\ NoRequests
    /\ GetterUnused
    /\ NothingStored

NextCfg ==
    \/ GetLocationService
    \/ CacheClear
    \/ SetEnv
    \/ ServiceGeocode
    \/ ServiceEstimate

SpecCfg == InitCfg /\ [][NextCfg]_vars

----------------------------------------------------------------------------
(* POST /api/recommendations as a whole: the event query of the route, then  *)
(* recommend_slots on the rows it returns                                    *)

\* the sales rep the request names
RequestedRep == "rep"

\* row i of the table: an event of the grid and the rep it belongs to
StoredEvent(i, iv, sales_rep_id) ==
    [id |-> <<i>>, start_at |-> Tick(iv[1]), end_at |-> Tick(iv[1] + iv[2]),
     lat |-> PlaceAt(iv[1] % 3).lat, lng |-> 0, sales_rep_id |-> sales_rep_id]

\* SalesEvent.query.filter_by(sales_rep_id=...).filter(start_at >= date_start)
\* .filter(end_at <= date_end).order_by(start_at.asc()).all()
QueriedEvents(rows, sales_rep_id, ds, de) ==
    SortedEvents(SelectSeq(rows, LAMBDA row :
        /\ row.sales_rep_id = sales_rep_id
        /\ Instant(row.start_at) >= Instant(ds)
        /\ Instant(row.end_at) <= Instant(de)))

\* lines 67-74: the rows of the rep inside the range become the engine's events
QueryEvents ==
    /\ pc = "query"
    /\ events' = QueriedEvents(stored_events, RequestedRep,
                               to_naive_utc(date_start), to_naive_utc(date_end))
    /\ pc' = "call"
    /\ UNCHANGED <<date_start, date_end, new_event, duration_minutes, buffer_minutes,
                   windows, wi, suggestions, result, raised, lookups, service, process>>

\* a table of events of the grid, the first of them the requested rep's or
\* another's, and a valid request about any range of the grid
InitRoute ==
    /\ \E n \in 0..MaxEvents : \E ivs \in [1..n -> FreeIntervals] :
          \E first_rep \in {RequestedRep, "other"} :
             stored_events = [i \in 1..n |->
                                 StoredEvent(i, ivs[i],
                                             IF i = 1 THEN first_rep ELSE RequestedRep)]
    /\ events = <<>>
    /\ FreeRequest
    /\ \E a, b \in 0..MaxTick :
          /\ a < b
          /\ date_start = Tick(a)
          /\ date_end = Tick(b)
    /\ pc = "query"
    /\ windows = <<>>
    /\ wi = 1
    /\ suggestions = <<>>
    /\ result = <<>>
    /\ raised = "none"
    /\ lookups = <<>>
    /\ fallback_routing_provider = None
    /\ geocode_cache = <<>>
    /\ calls_made = 0
    /\ last_call = NoCall
    /\ NoRequests
    /\ GetterUnused

NextRoute == QueryEvents \/ Call \/ SkipWindow \/ ScoreWindow \/ Return

SpecRoute == InitRoute /\ [][NextRoute]_vars

----------------------------------------------------------------------------
(* Vocabulary of the properties *)

Returned == pc = "returned"
WindowsBuilt == pc # "call"

\* the instants of a returned entry, read back from its strings
StartOf(r) == fromisoformat(r.start_at).wall
EndOf(r) == fromisoformat(r.end_at).wall

Overlap(s1, e1, s2, e2) == s1 < e2 /\ s2 < e1

EventsOverlap ==
    \E i, j \in 1..Len(events) :
        /\ i # j
        /\ Overlap(events[i].start_at.wall, events[i].end_at.wall,
                   events[j].start_at.wall, events[j].end_at.wall)

EventsOutOfOrder ==
    \E i, j \in 1..Len(events) :
        i < j /\ events[j].start_at.wall < events[i].start_at.wall

(* C1: the windows built by _build_candidate_windows are ordered by start,   *)
(* pairwise disjoint, each non-empty, and none intersects [start_at, end_at) *)
(* of any input event, whatever the order and the overlaps of the events.    *)
C1_WindowsOrderedDisjointFree ==
    WindowsBuilt =>
        /\ \A i \in 1..Len(windows) : windows[i].start.wall < windows[i].end.wall
        /\ \A i, j \in 1..Len(windows) :
              i < j => windows[i].end.wall <= windows[j].start.wall
        /\ \A i \in 1..Len(windows) : \A k \in 1..Len(events) :
              ~Overlap(windows[i].start.wall, windows[i].end.wall,
                       events[k].start_at.wall, events[k].end_at.wall)

\* two windows were built around events given out of order and overlapping
C1_Witness ==
    /\ WindowsBuilt
    /\ Len(windows) >= 2
    /\ EventsOverlap
    /\ EventsOutOfOrder

\* window w holds the entry r with the buffer kept on both sides
HeldBy(r, w) ==
    /\ w.start.wall + buffer_minutes <= StartOf(r)
    /\ EndOf(r) + buffer_minutes <= w.end.wall

TooShort(w) == w.end.wall - w.start.wall < buffer_minutes + duration_minutes + buffer_minutes

(* C2: every returned entry is exactly duration_minutes wide and lies in one *)
(* clipped window, buffer_minutes or more from both its edges; a window that *)
(* cannot hold buffer + duration + buffer yields no entry.                   *)
C2_WidthAndBuffers ==
    Returned =>
        /\ \A i \in 1..Len(result) :
              /\ EndOf(result[i]) - StartOf(result[i]) = duration_minutes
              /\ \E k \in 1..Len(windows) : HeldBy(result[i], windows[k])
        /\ \A k \in 1..Len(windows) :
              TooShort(windows[k]) =>
                  \A i \in 1..Len(result) :
                      ~Overlap(StartOf(result[i]), EndOf(result[i]),
                               windows[k].start.wall, windows[k].end.wall)

\* a call with a positive buffer returned an entry and passed over a window
C2_Witness ==
    /\ Returned
    /\ buffer_minutes > 0
    /\ Len(result) >= 1
    /\ \E k \in 1..Len(windows) : TooShort(windows[k])

(* C3: every returned entry has added_travel_min >= 0 and                    *)
(* total_travel_min >= added_travel_min.                                     *)
C3_TravelBounds ==
    Returned =>
        \A i \in 1..Len(result) :
            /\ result[i].added_travel_min >= 0
            /\ result[i].total_travel_min >= result[i].added_travel_min

\* an entry between two events whose direct leg is longer than the detour
C3_Witness ==
    /\ Returned
    /\ \E i \in 1..Len(result) :
          /\ result[i].before_event_id # None
          /\ result[i].after_event_id # None
          /\ result[i].added_travel_min = 0
          /\ result[i].total_travel_min > 0

\* a ranks no later than b: less added travel, or as much and no later a start
RanksNoLater(a, b) ==
    \/ a.added_travel_min < b.added_travel_min
    \/ /\ a.added_travel_min = b.added_travel_min
       /\ StartOf(a) <= StartOf(b)

InResult(s) == \E i \in 1..Len(result) : result[i] = s

(* C4: the returned list has at most 10 entries, is ascending by             *)
(* (added_travel_min, start_at), the earlier start first among equal added   *)
(* travel, and is the first 10 of all surviving candidates in that order.    *)
C4_RankedThenTruncated ==
    Returned =>
        /\ Len(result) <= 10
        /\ Len(result) = Min(Len(suggestions), 10)
        /\ \A i, j \in 1..Len(result) :
              i < j => RanksNoLater(result[i], result[j])
        /\ \A i \in 1..Len(result) :
              \E k \in 1..Len(suggestions) : suggestions[k] = result[i]
        /\ \A k \in 1..Len(suggestions) :
              ~InResult(suggestions[k]) =>
                  \A i \in 1..Len(result) : RanksNoLater(result[i], suggestions[k])

\* more than ten candidates survived, one of the first ten in time was left
\* out, and two returned entries tie on added travel
C4_Witness ==
    /\ Returned
    /\ Len(suggestions) > 10
    /\ \E k \in 1..10 : ~InResult(suggestions[k])
    /\ \E i, j \in 1..Len(result) :
          i < j /\ result[i].added_travel_min = result[j].added_travel_min

\* the events in start order
InStartOrder == SortedEvents(events)

\* id of the last event in start order that ends at or before t, None if none
LastEndingBy(t) ==
    LET se == InStartOrder
        ks == {k \in 1..Len(se) : se[k].end_at.wall <= t}
    IN  IF ks = {} THEN None
        ELSE se[CHOOSE k \in ks : \A m \in ks : m <= k].id

\* id of the first event in start order that starts at or after t, None if none
FirstStartingFrom(t) ==
    LET se == InStartOrder
        ks == {k \in 1..Len(se) : se[k].start_at.wall >= t}
    IN  IF ks = {} THEN None
        ELSE se[CHOOSE k \in ks : \A m \in ks : k <= m].id

(* C5: whatever the order the caller gave the events in, before_event_id is  *)
(* the id of the last event in start-sorted order ending at or before the    *)
(* candidate's start and after_event_id the id of the first event in         *)
(* start-sorted order starting at or after its end (null when there is none).*)
C5_NeighboursInSortedOrder ==
    Returned =>
        \A i \in 1..Len(result) :
            /\ result[i].before_event_id = LastEndingBy(StartOf(result[i]))
            /\ result[i].after_event_id = FirstStartingFrom(EndOf(result[i]))

\* the same, for the calls whose events the caller gave in start order
C5_NeighboursWhenCallerSorted ==
    (Returned /\ ~EventsOutOfOrder) =>
        \A i \in 1..Len(result) :
            /\ result[i].before_event_id = LastEndingBy(StartOf(result[i]))
            /\ result[i].after_event_id = FirstStartingFrom(EndOf(result[i]))

\* the event with this id, as a one-element tuple; None for None
EventWithId(id) ==
    IF id = None THEN None
    ELSE <<events[CHOOSE k \in 1..Len(events) : events[k].id = id]>>

\* the travel estimate between two neighbours, 0 when either is absent
Leg(a, b) ==
    IF a = None \/ b = None THEN 0 ELSE estimate_travel_minutes(a[1], b[1])

(* C6: for every returned entry, added_travel_min = max(p_to_n + n_to_x -    *)
(* p_to_x, 0) and total_travel_min = p_to_n + n_to_x, each leg the estimate  *)
(* of the one estimator for that pair and 0 when a neighbour of the leg is   *)
(* absent; an entry with no neighbours has added_travel_min = 0.             *)
C6_TravelDelta ==
    Returned =>
        \A i \in 1..Len(result) :
            LET p == EventWithId(result[i].before_event_id)
                x == EventWithId(result[i].after_event_id)
                n == <<new_event>>
                p_to_n == Leg(p, n)
                n_to_x == Leg(n, x)
                p_to_x == Leg(p, x)
            IN  /\ result[i].added_travel_min = Max(p_to_n + n_to_x - p_to_x, 0)
                /\ result[i].total_travel_min = p_to_n + n_to_x
                /\ (p = None /\ x = None) => result[i].added_travel_min = 0

\* one entry sits between two events and adds travel, another has no neighbour
\* on one side
C6_Witness ==
    /\ Returned
    /\ \E i \in 1..Len(result) :
          /\ result[i].before_event_id # None
          /\ result[i].after_event_id # None
          /\ result[i].added_travel_min > 0
          /\ result[i].total_travel_min > result[i].added_travel_min
    /\ \E i \in 1..Len(result) :
          /\ result[i].before_event_id = None
          /\ result[i].after_event_id # None

\* the one entry C7 expects for a window opening at instant w
LoneCandidate(w) ==
    /\ Len(result) = 1
    /\ StartOf(result[1]) = w + buffer_minutes
    /\ EndOf(result[1]) = w + buffer_minutes + duration_minutes
    /\ result[1].before_event_id = None
    /\ result[1].after_event_id = None

(* C7 as stated: with no events, one candidate at date_start + buffer, or   *)
(* the empty list when the range cannot hold buffer + duration + buffer.     *)
C7_Original ==
    (Returned /\ events = <<>>) =>
        \/ LoneCandidate(date_start.wall)
        \/ /\ result = <<>>
           /\ date_end.wall - date_start.wall
                 < buffer_minutes + duration_minutes + buffer_minutes

\* 08:00 and 19:00 of the day date_start falls on
WorkdayOpen == (date_start.wall \div DayMinutes) * DayMinutes + 8 * 60
WorkdayClose == (date_start.wall \div DayMinutes) * DayMinutes + 19 * 60
ClippedOpen == Max(date_start.wall, WorkdayOpen)
ClippedClose == Min(date_end.wall, WorkdayClose)

(* C7 with the working day: no events, the range is first cut to 08:00-19:00 of the *)
(* day of date_start; if buffer + duration + buffer fits in what is left,    *)
(* exactly one candidate is returned, starting buffer after the cut start,   *)
(* with both neighbour ids null; otherwise the list is empty.                *)
C7_EmptyCalendar ==
    (Returned /\ events = <<>>) =>
        IF ClippedOpen + buffer_minutes + duration_minutes + buffer_minutes
              <= ClippedClose
        THEN LoneCandidate(ClippedOpen) /\ result[1].added_travel_min = 0
        ELSE result = <<>>

\* no events, a range opening before 08:00, and one candidate returned
C7_Witness ==
    /\ Returned
    /\ events = <<>>
    /\ date_start.wall < WorkdayOpen
    /\ Len(result) = 1

\* the lookups of this call that raised
FailedLookups == {i \in 1..Len(lookups) : ~lookups[i].outcome.ok}

(* C8: if a travel-time lookup made while scoring a candidate fails,         *)
(* recommend_slots fails with that same error and returns no list, the       *)
(* candidates scored before it included; no lookup is made twice and none    *)
(* follows the failed one.                                                   *)
C8_LookupFailureAbortsCall ==
    /\ FailedLookups # {} =>
          /\ pc = "raised"
          /\ result = <<>>
          /\ FailedLookups = {Len(lookups)}
          /\ raised = lookups[Len(lookups)].outcome.error
    /\ pc = "raised" => FailedLookups # {}
    /\ \A i, j \in 1..Len(lookups) :
          i < j => <<lookups[i].window, lookups[i].leg>>
                      # <<lookups[j].window, lookups[j].leg>>

\* a lookup raised after an earlier candidate had been scored
C8_Witness ==
    /\ pc = "raised"
    /\ Len(suggestions) >= 1
    /\ raised \in LookupFailures

EstimateCalled == last_call.op = "estimate_travel_minutes"

(* C9: LocationService.estimate_travel_minutes asks the primary provider     *)
(* first and once; its result is returned and the fallback not asked when it *)
(* succeeds; on RoutingError with a fallback configured the fallback is      *)
(* asked once with the same origin and destination and its result returned;  *)
(* on RoutingError without a fallback the RoutingError propagates.           *)
C9_PrimaryThenFallback ==
    EstimateCalled =>
        LET calls == last_call.provider_calls
        IN  /\ Len(calls) >= 1
            /\ calls[1].provider = "primary"
            /\ calls[1].args = last_call.request
            /\ Cardinality({i \in 1..Len(calls) : calls[i].provider = "primary"}) = 1
            /\ calls[1].answer.ok =>
                  /\ Len(calls) = 1
                  /\ last_call.outcome = calls[1].answer
            /\ (calls[1].answer = Raise("RoutingError")
                   /\ fallback_routing_provider # None) =>
                  /\ Len(calls) = 2
                  /\ calls[2].provider = "fallback"
                  /\ calls[2].args = last_call.request
                  /\ last_call.outcome = calls[2].answer
            /\ (calls[1].answer = Raise("RoutingError")
                   /\ fallback_routing_provider = None) =>
                  /\ Len(calls) = 1
                  /\ last_call.outcome = Raise("RoutingError")

\* the primary raised RoutingError and the fallback's estimate was returned
C9_Witness ==
    /\ EstimateCalled
    /\ Len(last_call.provider_calls) = 2
    /\ last_call.provider_calls[1].answer = Raise("RoutingError")
    /\ last_call.outcome.ok

\* the latest call was a geocode_address whose provider lookup raised
GeocodeLookupFailed ==
    /\ last_call.op = "geocode_address"
    /\ last_call.provider_calls # <<>>
    /\ ~last_call.outcome.ok

C10_CacheHoldsSuccessesOnly ==
    /\ GeocodeLookupFailed =>
          /\ last_call.outcome = last_call.provider_calls[1].answer
          /\ normalize_address(last_call.request[1]) \notin CacheKeys(geocode_cache)
    /\ \A i \in 1..Len(geocode_cache) :
          geocode_cache[i].value = <<GeoPointFor(geocode_cache[i].key)>>

C10_Step ==
    calls_made' # calls_made =>
        /\ (last_call'.op = "geocode_address" /\ ~last_call'.outcome.ok) =>
              geocode_cache' = geocode_cache
        /\ (/\ last_call'.op = "geocode_address"
            /\ normalize_address(last_call'.request[1]) # <<>>
            /\ normalize_address(last_call'.request[1]) \notin CacheKeys(geocode_cache)) =>
              /\ Len(last_call'.provider_calls) = 1
              /\ last_call'.provider_calls[1].args
                    = <<normalize_address(last_call'.request[1])>>

(* C10: a geocode_address call whose provider lookup fails propagates the    *)
(* provider's error and leaves the cache as it was; the cache only ever      *)
(* holds the points of lookups that succeeded, so a call for an address      *)
(* whose lookup failed asks the provider again.                              *)
C10_FailedLookupsNotCached ==
    []C10_CacheHoldsSuccessesOnly /\ [][C10_Step]_vars

\* a provider lookup failed while the cache held an earlier success
C10_Witness ==
    /\ GeocodeLookupFailed
    /\ geocode_cache # <<>>

\* the non-whitespace tokens of an address, in order
Tokens(address) == Split(address)

\* a step that is a geocode_address call
GeocodeStep ==
    /\ calls_made' # calls_made
    /\ last_call'.op = "geocode_address"

C11_Step ==
    GeocodeStep =>
        LET address == last_call'.request[1]
            held == {i \in 1..Len(geocode_cache) :
                        Tokens(geocode_cache[i].key) = Tokens(address)}
        IN  /\ \A i \in held :
                  /\ last_call'.provider_calls = <<>>
                  /\ last_call'.outcome.ok
                  /\ last_call'.outcome.value = geocode_cache[i].value
                  /\ \E j \in 1..Len(geocode_cache') :
                        geocode_cache'[j] = geocode_cache[i]
            /\ last_call'.provider_calls # <<>> =>
                  /\ held = {}
                  /\ Len(last_call'.provider_calls) = 1
                  /\ last_call'.provider_calls[1].args = <<Join(Tokens(address))>>
                  /\ last_call'.outcome.ok =>
                        \E j \in 1..Len(geocode_cache') :
                            geocode_cache'[j] = [key |-> Join(Tokens(address)),
                                                 value |-> last_call'.outcome.value]

(* C11: geocode_address asks the geocoding provider only on a cache miss.    *)
(* Once a lookup has succeeded and while its entry is in the cache, a call   *)
(* whose address has the same tokens (whitespace aside) returns the cached   *)
(* GeoPoint with no provider call; a provider call carries the normalized    *)
(* string, and a successful one leaves its point in the cache under it.      *)
C11_ProviderOnlyOnMiss == [][C11_Step]_vars

\* a call answered from the cache for an address typed otherwise than cached
C11_Witness ==
    /\ last_call.op = "geocode_address"
    /\ last_call.provider_calls = <<>>
    /\ last_call.outcome.ok
    /\ last_call.request[1] \notin CacheKeys(geocode_cache)

\* a cache without its i-th entry
Dropped(cache, i) == SubSeq(cache, 1, i - 1) \o SubSeq(cache, i + 1, Len(cache))

C12_Bounded ==
    /\ Len(geocode_cache) <= CacheMaxSize
    /\ Cardinality(CacheKeys(geocode_cache)) = Len(geocode_cache)

C12_Step ==
    (GeocodeStep /\ last_call'.outcome.ok) =>
        \A key \in {Join(Tokens(last_call'.request[1]))}, cache \in {geocode_cache} :
            LET used == [key |-> key, value |-> last_call'.outcome.value]
                at == {i \in 1..Len(cache) : cache[i].key = key}
                kept == IF at # {} THEN Dropped(cache, CHOOSE i \in at : TRUE)
                        ELSE IF Len(cache) = CacheMaxSize
                             THEN Dropped(cache, 1)
                             ELSE cache
            IN  geocode_cache' = Append(kept, used)

(* C12: the geocode cache never holds more than 2048 entries nor two for one *)
(* key. The entries stand in the order of their last use: a call that        *)
(* succeeds, hit or miss, puts its entry last and leaves the others in their *)
(* order, and a successful miss on a full cache drops the first entry, the   *)
(* one whose last use is the oldest.                                         *)
C12_BoundedLeastRecentlyUsedOut == []C12_Bounded /\ [][C12_Step]_vars

\* "a", the oldest entry of a full cache, was used again and so outlived the
\* miss that followed, which dropped the entry after it
C12_Witness ==
    /\ Len(geocode_cache) = CacheMaxSize
    /\ geocode_cache[CacheMaxSize - 1].key = <<"a">>
    /\ geocode_cache[1] = CacheEntry(OtherAddress(2))
    /\ last_call.provider_calls # <<>>

\* the requests whose call is over and returned a point
Answered == {t \in 1..Len(requests) : requests[t].pc = "served" /\ requests[t].outcome.ok}

(* C13: however the geocode_address calls of concurrent requests interleave, *)
(* the cache never holds more than 2048 entries nor two entries for one      *)
(* normalized address, and every call that returns, returns the provider's   *)
(* point for the normalized form of its own address.                         *)
C13_CacheConsistentUnderInterleaving ==
    /\ Len(geocode_cache) <= CacheMaxSize
    /\ Cardinality(CacheKeys(geocode_cache)) = Len(geocode_cache)
    /\ \A t \in Answered :
          requests[t].outcome.value
              = <<GeoPointFor(Join(Tokens(requests[t].address)))>>

\* two requests for one address both missed and both asked the provider, the
\* cache being full
C13_Witness ==
    /\ Len(geocode_cache) = CacheMaxSize
    /\ \E t, u \in Answered :
          /\ t # u
          /\ requests[t].key = requests[u].key
          /\ requests[t].asked /\ requests[u].asked

\* the characters of s that are not whitespace, in order
Inked(s) == SelectSeq(s, LAMBDA c : c \notin Whitespace)

\* the places of s that hold such a character
InkedAt(s) == {i \in 1..Len(s) : s[i] \notin Whitespace}

\* how many such characters stand before place i
InkBefore(s, i) == Cardinality({j \in InkedAt(s) : j < i})

\* the k for which whitespace parts the k-th such character from the next
Breaks(s) ==
    {InkBefore(s, i) : i \in {j \in 1..Len(s) :
        /\ s[j] \in Whitespace
        /\ InkBefore(s, j) > 0
        /\ InkBefore(s, j) < Cardinality(InkedAt(s))}}

(* C14: normalize_address raises ValueError exactly when the address is      *)
(* empty or all whitespace; otherwise its result keeps the non-whitespace    *)
(* characters in order, parted into the same tokens, begins and ends with    *)
(* one of them, holds a single space wherever two tokens meet and no other   *)
(* whitespace, and is left unchanged by normalize_address.                   *)
C14_NormalizeAddress ==
    last_call.op = "normalize_address" =>
        LET address == last_call.request[1]
            outcome == last_call.outcome
        IN  IF InkedAt(address) = {}
            THEN outcome = Raise("ValueError")
            ELSE /\ outcome.ok
                 /\ LET out == outcome.value[1]
                    IN  /\ Inked(out) = Inked(address)
                        /\ Breaks(out) = Breaks(address)
                        /\ out[1] \notin Whitespace
                        /\ out[Len(out)] \notin Whitespace
                        /\ \A i \in 1..Len(out) : out[i] \in Whitespace =>
                              /\ out[i] = " "
                              /\ out[i + 1] \notin Whitespace
                        /\ normalize_address(out) = out

\* two tokens parted by a run of mixed whitespace, with whitespace at both ends
C14_Witness ==
    /\ last_call.op = "normalize_address"
    /\ last_call.request = << <<" ", "b", "\t", " ", "a">> >>
    /\ last_call.outcome = Ok(<<"b", " ", "a">>)

(* C15: suggest_addresses(query, limit) returns the empty list for a query   *)
(* of fewer than 3 characters and asks no provider; for a query of 3 or more *)
(* it asks the provider once, with that query and limit, and returns what    *)
(* the provider returns (or raises what it raises).                          *)
C15_SuggestPassthrough ==
    last_call.op = "suggest_addresses" =>
        IF Len(last_call.request[1]) < 3
        THEN /\ last_call.outcome = Ok(<<>>)
             /\ last_call.provider_calls = <<>>
        ELSE /\ Len(last_call.provider_calls) = 1
             /\ last_call.provider_calls[1].args = last_call.request
             /\ last_call.outcome = last_call.provider_calls[1].answer

\* a query of exactly three characters went through and came back with
\* suggestions
C15_Witness ==
    /\ last_call.op = "suggest_addresses"
    /\ Len(last_call.request[1]) = 3
    /\ last_call.outcome.ok
    /\ last_call.outcome.value # << <<>> >>

\* the domain error of each of the two provider operations
DomainError ==
    [op \in {"GeoapifyProvider.geocode", "GeoapifyProvider.estimate_travel_minutes"} |->
        IF op = "GeoapifyProvider.geocode" THEN "GeocodingError" ELSE "RoutingError"]

(* C16: whatever goes wrong with the request or the response (timeout,       *)
(* connection error, non-2xx status, empty or malformed body), geocode       *)
(* raises nothing but GeocodingError and estimate_travel_minutes nothing but *)
(* RoutingError, and an error that wraps a failure of the exchange carries   *)
(* that failure as its cause.                                                *)
C16_OnlyDomainErrorsEscape ==
    (last_call.op \in DOMAIN DomainError /\ ~last_call.outcome.ok) =>
        /\ last_call.outcome.error = DomainError[last_call.op]
        /\ last_call.provider_calls[1].answer.raises # "none" =>
              last_call.outcome.cause # None

\* the same, for the failures urlopen raises and for responses that lack
\* what is looked for
C16_TransportFailuresWrapped ==
    (/\ last_call.op \in DOMAIN DomainError
     /\ ~last_call.outcome.ok
     /\ last_call.outcome.error \in {"GeocodingError", "RoutingError"}) =>
        /\ last_call.outcome.error = DomainError[last_call.op]
        /\ last_call.provider_calls[1].answer.raises # "none" =>
              /\ last_call.provider_calls[1].answer.raises \in CaughtTransportErrors
              /\ last_call.outcome.cause = <<"RuntimeError">>

HaversineCalled == last_call.op = "HaversineRoutingProvider.estimate_travel_minutes"

\* the pairs of points nearer to each other than the pair of the latest call
NearerPairs ==
    {pair \in HaversinePoints \X HaversinePoints :
        HaversineMinutes(pair[1], pair[2])
            < HaversineMinutes(last_call.request[1], last_call.request[2])}

(* C17: the haversine estimate never fails, is at least 2.0 minutes, is      *)
(* exactly 2.0 for identical points, and is strictly larger for a pair of    *)
(* points than for any pair nearer to each other.                            *)
C17_NeverFailsStrictlyIncreasing ==
    HaversineCalled =>
        /\ last_call.outcome.ok
        /\ last_call.outcome.value[1] >= 20
        /\ last_call.request[1] = last_call.request[2] =>
              last_call.outcome.value[1] = 20
        /\ \A pair \in NearerPairs :
              estimate_travel_minutes(pair[1], pair[2]) < last_call.outcome.value[1]

\* what does hold: an estimate that is returned is at least 2.0, is 2.0 for
\* identical points, is never smaller than that of a nearer pair, and is
\* larger when the raw minutes exceed 2.0 and the nearer pair's by over 0.1
C17_FloorAndMonotone ==
    (HaversineCalled /\ last_call.outcome.ok) =>
        /\ last_call.outcome.value[1] >= 20
        /\ last_call.request[1] = last_call.request[2] =>
              last_call.outcome.value[1] = 20
        /\ \A pair \in NearerPairs :
              /\ estimate_travel_minutes(pair[1], pair[2]) <= last_call.outcome.value[1]
              /\ (HaversineMinutes(last_call.request[1], last_call.request[2])
                     > Max(HaversineMinutes(pair[1], pair[2]), 200) + 10) =>
                    estimate_travel_minutes(pair[1], pair[2])
                        < last_call.outcome.value[1]

\* the estimator raised on two antipodal points
C17_RaisedOnAntipodes ==
    /\ HaversineCalled
    /\ ~last_call.outcome.ok
    /\ last_call.outcome.error = "ValueError"
    /\ HaversineMinutes(last_call.request[1], last_call.request[2]) = HalfTurn

Converted == last_call.op = "to_naive_utc"

(* C18: to_naive_utc returns a naive value unchanged and turns an aware      *)
(* value into the naive value of the same instant in UTC; the result has no  *)
(* offset, aware values of one instant get one result, and converting the    *)
(* result again changes nothing.                                             *)
C18_ToNaiveUtc ==
    Converted =>
        \A value \in {last_call.request}, converted \in {last_call.outcome.value[1]} :
            /\ value.tzinfo = None => converted = value
            /\ converted.tzinfo = None
            /\ converted.wall = Instant(value)
            /\ \A other \in ConvertedValues :
                  (other.tzinfo # None /\ value.tzinfo # None
                      /\ Instant(other) = Instant(value)) =>
                     to_naive_utc(other) = converted
            /\ to_naive_utc(converted) = converted

\* an aware value off UTC was converted, and another aware value with another
\* wall-clock reading denotes the same instant
C18_Witness ==
    /\ Converted
    /\ last_call.request = [wall |-> 60, tzinfo |-> <<-300>>]
    /\ last_call.outcome.value[1] = Naive(360)
    /\ \E other \in ConvertedValues :
          /\ other.tzinfo # None
          /\ other.wall # last_call.request.wall
          /\ Instant(other) = Instant(last_call.request)

Posted == last_call.op = "POST /api/recommendations"

\* both dates of the posted payload parse, and date_end is not after date_start
RangeNotForward ==
    /\ Posted
    /\ last_call.request.date_start.kind = "iso"
    /\ last_call.request.date_end.kind = "iso"
    /\ Instant(last_call.request.date_end.at) <= Instant(last_call.request.date_start.at)

\* the payload holds the other fields of the request, the location aside
OtherFieldsGiven ==
    /\ last_call.request.sales_rep_id # None
    /\ last_call.request.new_event_duration_min # Absent

CoordinatesGiven ==
    /\ last_call.request.new_event_lat # Absent
    /\ last_call.request.new_event_lng # Absent

RangeRejected ==
    /\ last_call.outcome.value[1] =
          Response(400, <<"date_end must be after date_start">>)
    /\ last_call.provider_calls = <<>>

(* C19: a request whose date_end is not after date_start is answered 400     *)
(* 'date_end must be after date_start', whether it carries the address or    *)
(* coordinates in its place, and no event query or provider call is made.    *)
C19_RangeRejectedAddressOrCoordinates ==
    (RangeNotForward /\ OtherFieldsGiven
        /\ (last_call.request.new_event_address # None \/ CoordinatesGiven)) =>
       RangeRejected

\* what does hold: with new_event_address in the payload the range error is
\* the answer; without it the answer is 400 all the same, for the missing
\* field; no query or provider call is made either way
C19_RangeRejectedWithAddress ==
    RangeNotForward =>
        /\ last_call.outcome.value[1].status = 400
        /\ last_call.provider_calls = <<>>
        /\ (OtherFieldsGiven /\ last_call.request.new_event_address # None) =>
              RangeRejected
        /\ last_call.request.new_event_address = None =>
              last_call.outcome.value[1].error[1] = "missing fields"

\* the request of the test: coordinates, no address, date_end before date_start
C19_CoordinatesOnly ==
    /\ RangeNotForward
    /\ OtherFieldsGiven
    /\ CoordinatesGiven
    /\ last_call.request.new_event_address = None
    /\ last_call.outcome.value[1] =
          Response(400, <<"missing fields", <<"new_event_address">>>>)

\* the provider name and the fallback name as get_location_service reads them
ProviderNameOf(env) ==
    LowerText(StripText(getenv(env, "LOCATION_PROVIDER", Plain("geoapify"))))
RoutingFallbackOf(env) ==
    LowerText(StripText(getenv(env, "ROUTING_FALLBACK", Plain("off"))))

SupportedProviders == {Plain("geoapify"), Plain("geoapify-haversine")}
SupportedFallbacks == {Plain("off"), Plain("haversine")}

\* this step is a call of get_location_service
GetterStep ==
    /\ last_call'.op = "get_location_service"
    /\ environ' = environ
    /\ service_memo' = None => service_memo = None

\* no call of the memoized service raised ProviderConfigurationError
NoLateConfigurationError ==
    last_call.op \in {"geocode_address", "estimate_travel_minutes"} =>
        last_call.outcome.error # "ProviderConfigurationError"

\* C20 as stated: one rule for every configuration (whose timeout is a float)
C20_StatedStep ==
    (/\ GetterStep
     /\ service_memo = None
     /\ IsFloatLiteral(getenv(environ, "GEO_TIMEOUT_SECONDS", Plain("8.0")))) =>
        LET refused == \/ ProviderNameOf(environ) \notin SupportedProviders
                       \/ RoutingFallbackOf(environ) \notin SupportedFallbacks
                       \/ KeyMissing(environ)
            outcome == last_call'.outcome
        IN  /\ refused => outcome = Raise("ProviderConfigurationError")
            /\ ~refused =>
                  /\ outcome.ok
                  /\ outcome.value[1].fallback_routing_provider # None
                        <=> RoutingFallbackOf(environ) = Plain("haversine")
            /\ ~outcome.ok => service_memo' = None

(* C20 as stated: get_location_service fails with ProviderConfigurationError *)
(* whenever the provider name is unsupported, ROUTING_FALLBACK is neither    *)
(* off nor haversine, or the key is missing; otherwise the service it        *)
(* returns has a fallback exactly when ROUTING_FALLBACK is haversine; a      *)
(* failure is not memoized and the service never raises the error later.     *)
C20_OneRuleForEveryConfiguration ==
    []NoLateConfigurationError /\ [][C20_StatedStep]_vars

C20_Step ==
    GetterStep =>
        LET name == ProviderNameOf(environ)
            fallback == RoutingFallbackOf(environ)
            refused == \/ name \notin SupportedProviders
                       \/ KeyMissing(environ)
                       \/ name = Plain("geoapify") /\ fallback \notin SupportedFallbacks
            outcome == last_call'.outcome
        IN  IF service_memo # None
            THEN outcome = Ok(service_memo[1]) /\ service_memo' = service_memo
            ELSE IF ~IsFloatLiteral(getenv(environ, "GEO_TIMEOUT_SECONDS", Plain("8.0")))
            THEN outcome = Raise("ValueError") /\ service_memo' = None
            ELSE IF refused
            THEN outcome = Raise("ProviderConfigurationError") /\ service_memo' = None
            ELSE /\ outcome.ok
                 /\ service_memo' = outcome.value
                 /\ outcome.value[1].fallback_routing_provider # None
                       <=> (name = Plain("geoapify") /\ fallback = Plain("haversine"))
                 /\ outcome.value[1].routing_provider = "HaversineRoutingProvider"
                       <=> name = Plain("geoapify-haversine")

(* C20, amended: with nothing memoized and a GEO_TIMEOUT_SECONDS that is a   *)
(* float, get_location_service fails with ProviderConfigurationError exactly *)
(* when the provider name is unsupported, the key is missing, or the name is *)
(* geoapify and ROUTING_FALLBACK is neither off nor haversine; otherwise the *)
(* service has a fallback exactly when the name is geoapify and              *)
(* ROUTING_FALLBACK is haversine.  A failure is not memoized, a service is,  *)
(* and the service never raises ProviderConfigurationError later.            *)
C20_FallbackRuleOfGeoapifyOnly ==
    []NoLateConfigurationError /\ [][C20_Step]_vars

\* under geoapify-haversine with ROUTING_FALLBACK = haversine the service was
\* built and memoized without a fallback
C20_Witness ==
    /\ environ["LOCATION_PROVIDER"] = <<Plain("geoapify-haversine")>>
    /\ environ["ROUTING_FALLBACK"] = <<Plain("haversine")>>
    /\ environ["GEOAPIFY_API_KEY"] = <<Plain("key")>>
    /\ environ["GEO_TIMEOUT_SECONDS"] = None
    /\ service_memo = <<LocationServiceOf("HaversineRoutingProvider", None)>>
    /\ last_call.op = "get_location_service"
    /\ last_call.outcome = Ok(LocationServiceOf("HaversineRoutingProvider", None))

----------------------------------------------------------------------------

\* the gaps the walk over the events leaves, before they are clipped
FreeGaps == GapWindows(date_start, date_end, events)

DayOf(wall) == wall \div DayMinutes
WorkdayOpens(day) == day * DayMinutes + DAY_START_HOUR * 60
WorkdayCloses(day) == day * DayMinutes + DAY_END_HOUR * 60

\* gap g met with 08:00-19:00 of the day it starts on, as a pair of instants
FirstDayPart(g) ==
    <<Max(g.start.wall, WorkdayOpens(DayOf(g.start.wall))),
      Min(g.end.wall, WorkdayCloses(DayOf(g.start.wall)))>>

\* the gaps whose first day's part is not empty, in order
GapsKept == SelectSeq(FreeGaps, LAMBDA g : FirstDayPart(g)[1] < FirstDayPart(g)[2])

(* C21: every window of _build_candidate_windows is a free gap met with      *)
(* 08:00-19:00 of the day the gap starts on: it lies in that one working     *)
(* day, a gap whose clipped start is not before its clipped end gives no     *)
(* window, and a gap running past midnight gives its first day's part only.  *)
C21_WindowIsFirstDayPartOfGap ==
    WindowsBuilt =>
        /\ Len(windows) = Len(GapsKept)
        /\ \A i \in 1..Len(windows) :
              /\ <<windows[i].start.wall, windows[i].end.wall>> = FirstDayPart(GapsKept[i])
              /\ windows[i].start.wall < windows[i].end.wall
              /\ WorkdayOpens(DayOf(windows[i].start.wall)) <= windows[i].start.wall
              /\ windows[i].end.wall <= WorkdayCloses(DayOf(windows[i].start.wall))

\* a gap from 18:00 ran into the working hours of the next day and gave the
\* window 18:00-19:00 only: no window lies on the later day
C21_Witness ==
    /\ WindowsBuilt
    /\ \E k \in 1..Len(FreeGaps) :
          /\ FreeGaps[k].end.wall > WorkdayOpens(DayOf(FreeGaps[k].start.wall) + 1)
          /\ \E i \in 1..Len(windows) :
                /\ windows[i].start = FreeGaps[k].start
                /\ windows[i].end.wall = WorkdayCloses(DayOf(FreeGaps[k].start.wall))
          /\ \A i \in 1..Len(windows) :
                DayOf(windows[i].start.wall) = DayOf(FreeGaps[k].start.wall)

----------------------------------------------------------------------------

\* the ids of the events nearest before t: ending at or before t, none later
NearestBefore(t) ==
    {events[k].id : k \in {k \in 1..Len(events) :
        /\ events[k].end_at.wall <= t
        /\ \A m \in 1..Len(events) :
              events[m].end_at.wall <= t => events[m].end_at.wall <= events[k].end_at.wall}}

\* the ids of the events nearest after t: starting at or after t, none earlier
NearestAfter(t) ==
    {events[k].id : k \in {k \in 1..Len(events) :
        /\ events[k].start_at.wall >= t
        /\ \A m \in 1..Len(events) :
              events[m].start_at.wall >= t =>
                 events[k].start_at.wall <= events[m].start_at.wall}}

\* id is None when the set is empty and one of its members otherwise
NoneOrIn(id, ids) == IF ids = {} THEN id = None ELSE id \in ids

\* an event that starts no earlier than another ends no earlier than it
EndsInStartOrder ==
    \A i, j \in 1..Len(events) :
        events[i].start_at.wall <= events[j].start_at.wall /\ i < j =>
           events[i].end_at.wall <= events[j].end_at.wall

(* C22: for every returned candidate, also when events overlap or nest, the  *)
(* previous neighbour is the event with the latest end among those ending at *)
(* or before the candidate's start and the next neighbour the event with the *)
(* earliest start among those starting at or after its end.  Checked for the *)
(* calls whose events come in start order, as the route's query gives them.  *)
C22_NearestNeighbours ==
    (Returned /\ ~EventsOutOfOrder) =>
        \A i \in 1..Len(result) :
            /\ NoneOrIn(result[i].before_event_id, NearestBefore(StartOf(result[i])))
            /\ NoneOrIn(result[i].after_event_id, NearestAfter(EndOf(result[i])))

\* what does hold of events in start order: the next neighbour is the nearest
\* one, and so is the previous one when no event outlasts a later one
C22_NearestWhenEndsInOrder ==
    (Returned /\ ~EventsOutOfOrder) =>
        \A i \in 1..Len(result) :
            /\ NoneOrIn(result[i].after_event_id, NearestAfter(EndOf(result[i])))
            /\ EndsInStartOrder =>
                  NoneOrIn(result[i].before_event_id, NearestBefore(StartOf(result[i])))

\* events in start order, the first outlasting the second, and a candidate
\* after both whose previous neighbour is the second
C22_ShorterEventTaken ==
    /\ Returned
    /\ ~EventsOutOfOrder
    /\ \E i \in 1..Len(result) :
          /\ result[i].before_event_id # None
          /\ result[i].before_event_id \notin NearestBefore(StartOf(result[i]))

----------------------------------------------------------------------------

\* the rows of the requested rep
RowsOfRep ==
    {k \in 1..Len(stored_events) : stored_events[k].sales_rep_id = RequestedRep}

\* row k starts before date_start or ends after date_end and meets the range
Straddles(k) ==
    /\ \/ stored_events[k].start_at.wall < date_start.wall
       \/ stored_events[k].end_at.wall > date_end.wall
    /\ Overlap(stored_events[k].start_at.wall, stored_events[k].end_at.wall,
               date_start.wall, date_end.wall)

C23_NoSlotOverQueriedEvent ==
    Returned =>
        /\ \A i \in 1..Len(result) : \A k \in 1..Len(events) :
              ~Overlap(StartOf(result[i]), EndOf(result[i]),
                       events[k].start_at.wall, events[k].end_at.wall)
        /\ \A i \in 1..Len(result) : \A k \in RowsOfRep :
              Overlap(StartOf(result[i]), EndOf(result[i]),
                      stored_events[k].start_at.wall, stored_events[k].end_at.wall)
                 => Straddles(k)

\* a returned slot lies over a row of the rep that began before date_start
C23_SlotOverStraddlingEvent ==
    /\ Returned
    /\ \E i \in 1..Len(result) : \E k \in RowsOfRep :
          /\ stored_events[k].start_at.wall < date_start.wall
          /\ Overlap(StartOf(result[i]), EndOf(result[i]),
                     stored_events[k].start_at.wall, stored_events[k].end_at.wall)

----------------------------------------------------------------------------

SomeEventStartsAfterRange ==
    \E k \in 1..Len(events) : events[k].start_at.wall > Instant(date_end)

(* C24: every slot returned by recommend_slots lies within the requested     *)
(* range, date_start <= start_at and end_at <= date_end, whatever the event  *)
(* list, events starting before date_start or after date_end included.      *)
C24_SlotsWithinRange ==
    Returned =>
        \A i \in 1..Len(result) :
            /\ Instant(date_start) <= StartOf(result[i])
            /\ EndOf(result[i]) <= Instant(date_end)

\* what does hold: no slot starts before date_start, and none ends after
\* date_end unless some event starts after date_end
C24_WithinRangeUnlessLaterEvent ==
    Returned =>
        \A i \in 1..Len(result) :
            /\ Instant(date_start) <= StartOf(result[i])
            /\ ~SomeEventStartsAfterRange => EndOf(result[i]) <= Instant(date_end)

\* a returned slot ends after date_end, before an event that starts later still
C24_SlotPastRange ==
    /\ Returned
    /\ SomeEventStartsAfterRange
    /\ \E i \in 1..Len(result) : EndOf(result[i]) > Instant(date_end)

----------------------------------------------------------------------------

(* C25: the routing fallback absorbs RoutingError only: any other error of   *)
(* the primary provider propagates unchanged and the fallback is not asked,  *)
(* and an error of the fallback propagates with no further provider call.    *)
C25_FallbackAbsorbsRoutingErrorOnly ==
    EstimateCalled =>
        LET calls == last_call.provider_calls
        IN  /\ Len(calls) \in {1, 2}
            /\ (~calls[1].answer.ok /\ calls[1].answer.error # "RoutingError") =>
                  /\ Len(calls) = 1
                  /\ last_call.outcome = calls[1].answer
            /\ Len(calls) = 2 =>
                  /\ calls[1].answer = Raise("RoutingError")
                  /\ calls[2].provider = "fallback"
                  /\ last_call.outcome = calls[2].answer

\* with a fallback configured the primary raised ProviderConfigurationError,
\* which came back from the one provider call made
C25_Witness ==
    /\ EstimateCalled
    /\ fallback_routing_provider # None
    /\ Len(last_call.provider_calls) = 1
    /\ last_call.provider_calls[1].answer = Raise("ProviderConfigurationError")
    /\ last_call.outcome = Raise("ProviderConfigurationError")

\* the fallback was asked and raised an error of its own, which came back
C25_FallbackFailed ==
    /\ EstimateCalled
    /\ Len(last_call.provider_calls) = 2
    /\ last_call.provider_calls[2].answer = Raise("ValueError")
    /\ last_call.outcome = Raise("ValueError")

====
